---------------------------- MODULE Spec2Model ----------------------------
(***************************************************************************)
(* Model of the job tracker's versioned-persistence pipeline:              *)
(*   job_tracker/persistence.py  persist_snapshot                          *)
(*   job_tracker/db.py           Database (SQLite, one commit per call)    *)
(*   job_tracker/scheduler.py    run_scheduler                             *)
(*   job_tracker/collector.py    collect_jobs                              *)
(*                                                                         *)
(* Every Database method ends with self.conn.commit(), so each call is an  *)
(* atomic, immediately visible step; persist_snapshot is therefore a       *)
(* sequence of steps whose position is the variable pc.                    *)
(***************************************************************************)
EXTENDS Integers, Sequences, FiniteSets, TLC

VARIABLES
    \* --- durable store (db.py SCHEMA) ---
    runs,            \* seq of rows, run_id = index
    run_errors,      \* seq of rows, error_id = index
    companies,       \* seq of rows, id = index
    jobs,            \* function job_id -> row (job_id is the primary key)
    job_versions,    \* seq of rows, version_id = index
    snapshots,       \* seq of rows, snapshot_id = index
    snapshot_jobs,   \* set of rows, primary key (snapshot_id, job_id)
    \* --- persist_snapshot activation ---
    pc,              \* position inside persist_snapshot
    timestamp,       \* argument
    in_jobs,         \* argument jobs
    company_configs, \* argument
    snapshot_id,     \* local
    snapshot_job_ids,\* local
    k,               \* index of the for-loop over jobs
    company_id,      \* local
    version_id,      \* local
    raised,          \* exception that ended the call, or "none"
    \* --- observers ---
    passes,          \* calls made so far: arguments and outcome
    preStore,        \* the store when the current call began
    view,            \* what a concurrent reader saw during the current call
    \* --- run_scheduler activation ---
    s_pc,            \* position inside run_scheduler ("off": not launched)
    s_companies,     \* argument companies
    iterations,      \* argument
    s_i,             \* local i
    s_ts,            \* local ts
    s_c,             \* collect_jobs: index of the for-loop over companies
    s_jobs,          \* collect_jobs: all_jobs, then local jobs
    s_errors,        \* collect_jobs: errors, then local errors
    s_run_id,        \* local
    s_e,             \* index of the for-loop over errors
    s_io,            \* observer: what each source's I/O did in the current collect_jobs
    \* --- one application of a pure function ---
    f_fn,            \* the function ("none": no application in this behaviour)
    f_in,            \* its arguments
    f_out            \* its result, once it has been applied

storeVars == <<runs, run_errors, companies, jobs, job_versions, snapshots, snapshot_jobs>>
persistVars == <<pc, timestamp, in_jobs, company_configs, snapshot_id,
                 snapshot_job_ids, k, company_id, version_id, raised>>
observerVars == <<passes, preStore, view>>
schedVars == <<s_pc, s_companies, iterations, s_i, s_ts, s_c, s_jobs, s_errors, s_run_id, s_e,
               s_io>>
calcVars == <<f_fn, f_in, f_out>>
vars == <<storeVars, persistVars, observerVars, schedVars, calcVars>>

-----------------------------------------------------------------------------
(* Bounds *)
MaxPasses == 3      \* calls of persist_snapshot in one behaviour
MaxLen == 3         \* length of one incoming list
MaxTotal == 4       \* postings submitted over all calls
MaxIterations == 2  \* largest iterations argument of run_scheduler
MaxRuns == 2        \* launches of run_scheduler on the same database file

NULL == 0           \* SQL NULL in an integer/timestamp column (ids and timestamps are >= 1)
None == "None"      \* Python None in a text or tri-state field

-----------------------------------------------------------------------------
(* Inputs: company configurations and postings *)

CfgCo == [slug |-> "exampleco", name |-> "ExampleCo", ats |-> "greenhouse",
          json_path |-> None]
CfgLever == [slug |-> "example-lever", name |-> "ExampleLever", ats |-> "lever",
             json_path |-> None]
\* a source with a recorded payload file, and one of an ATS the collector does not support
CfgFile == [slug |-> "example-file", name |-> "ExampleFile", ats |-> "Ashby",
            json_path |-> "ashby_sample.json"]
CfgCustom == [slug |-> "example-custom", name |-> "ExampleCustom", ats |-> "workday",
              json_path |-> None]

ConfigLists == { <<CfgCo, CfgLever>>, <<CfgCo>> }

Job(id, company, title, location, url, source, remote, extra) ==
    [job_id |-> id, company |-> company, title |-> title, location |-> location,
     url |-> url, source |-> source, remote |-> remote, extra |-> extra]

JobA == Job("A", "ExampleCo", "New Grad Software Engineer", "New York, NY",
            "https://boards.greenhouse.io/exampleco/jobs/1", "greenhouse", "False", <<>>)
JobB == Job("B", "ExampleCo", "Senior Software Engineer", None,
            "https://boards.greenhouse.io/exampleco/jobs/2", "greenhouse", None,
            << <<"department", "Engineering">> >>)
\* the same posting as JobB with changed content
JobB2 == Job("B", "ExampleCo", "Software Engineer I", "",
             "https://boards.greenhouse.io/exampleco/jobs/2", "greenhouse", "True",
             << <<"department", "Engineering">> >>)
JobC == Job("C", "ExampleLever", "Research Scientist", "Remote",
            "https://jobs.lever.co/example-lever/3", "lever", "True",
            << <<"team", "ML">> >>)

Jobs == {JobA, JobB, JobB2, JobC}
JobIds == {j.job_id : j \in Jobs}

RECURSIVE SeqsUpTo(_, _)
SeqsUpTo(S, n) ==
    IF n = 0 THEN {<<>>}
    ELSE LET shorter == SeqsUpTo(S, n - 1)
         IN  shorter \cup {Append(s, x) : s \in {t \in shorter : Len(t) = n - 1}, x \in S}

Range(s) == {s[i] : i \in DOMAIN s}

-----------------------------------------------------------------------------
(* Conversions done by persist_snapshot and insert_job_version *)

RECURSIVE dumps_items(_)
dumps_items(extra) ==
    IF Len(extra) = 0 THEN ""
    ELSE "\"" \o extra[1][1] \o "\": \"" \o extra[1][2] \o "\""
         \o (IF Len(extra) > 1 THEN ", " ELSE "") \o dumps_items(Tail(extra))

\* json.dumps of a flat str -> str dict
json_dumps(extra) == "{" \o dumps_items(extra) \o "}"

\* persistence.py: json.dumps(job.extra, ensure_ascii=False) if job.extra else "{}"
extra_json(job) == IF Len(job.extra) # 0 THEN json_dumps(job.extra) ELSE "{}"

\* persistence.py: job.location or ""
location_or_empty(job) == IF job.location = None \/ job.location = "" THEN "" ELSE job.location

\* db.py insert_job_version: 1 if remote is True else 0 if remote is False else None
remote_column(remote) == IF remote = "True" THEN "1" ELSE IF remote = "False" THEN "0" ELSE "NULL"


-----------------------------------------------------------------------------
(* db.py: Database methods.  Each returns the new content of the table it  *)
(* writes; the commit at the end of each method makes it one step.         *)

\* INSERT INTO runs (started_at, status, companies_total) VALUES (?, 'running', ?)
insert_run(started_at, companies_total) ==
    Append(runs, [started_at |-> started_at, finished_at |-> NULL, status |-> "running",
                  companies_total |-> companies_total, companies_succeeded |-> 0,
                  companies_failed |-> 0, jobs_collected |-> 0, notes |-> None])

\* INSERT INTO run_errors (run_id, created_at, company_slug, company_name, ats, error)
insert_run_error(run_id, created_at, company_slug, company_name, ats, error) ==
    Append(run_errors, [run_id |-> run_id, created_at |-> created_at,
                        company_slug |-> company_slug, company_name |-> company_name,
                        ats |-> ats, error |-> error])

\* INSERT OR IGNORE by slug, then UPDATE name and source of the row with that slug
upsert_company(slug, name, source) ==
    LET inserted == IF \E i \in DOMAIN companies : companies[i].slug = slug
                    THEN companies
                    ELSE Append(companies, [slug |-> slug, name |-> name, source |-> source])
    IN  [i \in DOMAIN inserted |->
            IF inserted[i].slug = slug
            THEN [inserted[i] EXCEPT !.name = name, !.source = source]
            ELSE inserted[i]]

\* SELECT id FROM companies WHERE slug=?   (in the table after the upsert)
company_id_of(table, slug) == CHOOSE i \in DOMAIN table : table[i].slug = slug

\* SELECT * FROM jobs WHERE job_id=?  is not None
get_job(job_id) == job_id \in DOMAIN jobs

\* INSERT INTO jobs (...) VALUES (?, ?, ?, ?, ?, ?, 1); removed_at defaults to NULL
insert_job(job_id, cid, url, source, first_seen, last_seen) ==
    [j \in DOMAIN jobs \cup {job_id} |->
        IF j = job_id
        THEN [job_id |-> job_id, company_id |-> cid, url |-> url, source |-> source,
              first_seen |-> first_seen, last_seen |-> last_seen,
              removed_at |-> NULL, active |-> 1]
        ELSE jobs[j]]

\* mutant: last_seen refreshed, the posting not reactivated
update_job_seen_no_reactivate(job_id, last_seen) ==
    [j \in DOMAIN jobs |->
        IF j = job_id THEN [jobs[j] EXCEPT !.last_seen = last_seen] ELSE jobs[j]]

\* mutant: removed_at is not cleared
update_job_seen_keep_removed_at(job_id, last_seen) ==
    [j \in DOMAIN jobs |->
        IF j = job_id THEN [jobs[j] EXCEPT !.last_seen = last_seen, !.active = 1] ELSE jobs[j]]

\* UPDATE jobs SET last_seen=?, active=1, removed_at=NULL WHERE job_id=?
update_job_seen(job_id, last_seen) ==
    [j \in DOMAIN jobs |->
        IF j = job_id
        THEN [jobs[j] EXCEPT !.last_seen = last_seen, !.active = 1, !.removed_at = NULL]
        ELSE jobs[j]]

\* mutant: the UPDATE is not executed
mark_jobs_removed_noop(job_ids, removed_at) == jobs

\* UPDATE jobs SET active=0, removed_at=? WHERE job_id IN (...); nothing for an empty list
mark_jobs_removed(job_ids, removed_at) ==
    IF job_ids = {} THEN jobs
    ELSE [j \in DOMAIN jobs |->
            IF j \in job_ids
            THEN [jobs[j] EXCEPT !.active = 0, !.removed_at = removed_at]
            ELSE jobs[j]]

\* mutant: the latest version of the posting is overwritten instead of a row being appended
insert_job_version_overwrite(job_id, ts, title, location, remote, extra) ==
    LET mine == {v \in DOMAIN job_versions : job_versions[v].job_id = job_id}
        latest == CHOOSE v \in mine : \A w \in mine : w <= v
        row == [job_id |-> job_id, timestamp |-> ts, title |-> title, location |-> location,
                remote |-> remote_column(remote), extra |-> extra]
    IN  IF mine # {} THEN [job_versions EXCEPT ![latest] = row] ELSE Append(job_versions, row)

\* mutant: no new version when the latest version of the posting has the same content
insert_job_version_if_changed(job_id, ts, title, location, remote, extra) ==
    LET mine == {v \in DOMAIN job_versions : job_versions[v].job_id = job_id}
        latest == CHOOSE v \in mine : \A w \in mine : w <= v
    IN  IF mine # {} /\ job_versions[latest].title = title
           /\ job_versions[latest].location = location
           /\ job_versions[latest].remote = remote_column(remote)
           /\ job_versions[latest].extra = extra
        THEN job_versions
        ELSE Append(job_versions, [job_id |-> job_id, timestamp |-> ts, title |-> title,
                                   location |-> location, remote |-> remote_column(remote),
                                   extra |-> extra])

\* INSERT INTO job_versions (job_id, timestamp, title, location, remote, extra)
insert_job_version(job_id, ts, title, location, remote, extra) ==
    Append(job_versions, [job_id |-> job_id, timestamp |-> ts, title |-> title,
                          location |-> location, remote |-> remote_column(remote),
                          extra |-> extra])

\* INSERT INTO snapshots (timestamp, run_id) VALUES (?, ?)
insert_snapshot(ts, run_id) ==
    Append(snapshots, [timestamp |-> ts, run_id |-> run_id])

\* mutant: snapshot_jobs has no primary key
snapshot_job_conflict_never(sid, job_id) == FALSE

\* mutant: the primary key of snapshot_jobs is job_id alone
snapshot_job_conflict_any_snapshot(sid, job_id) ==
    \E r \in snapshot_jobs : r.job_id = job_id

\* PRIMARY KEY(snapshot_id, job_id) of snapshot_jobs: the insert raises IntegrityError
snapshot_job_conflict(sid, job_id) ==
    \E r \in snapshot_jobs : r.snapshot_id = sid /\ r.job_id = job_id

\* mutant: the row references the first version of the table
insert_snapshot_job_first_version(sid, job_id, vid, new_grad) ==
    snapshot_jobs \cup {[snapshot_id |-> sid, job_id |-> job_id, version_id |-> 1,
                         is_new_grad |-> IF new_grad THEN 1 ELSE 0]}

\* INSERT INTO snapshot_jobs (snapshot_id, job_id, version_id, is_new_grad)
insert_snapshot_job(sid, job_id, vid, new_grad) ==
    snapshot_jobs \cup {[snapshot_id |-> sid, job_id |-> job_id, version_id |-> vid,
                         is_new_grad |-> IF new_grad THEN 1 ELSE 0]}

\* mutant: the WHERE j.active=1 filter is missing
list_active_jobs_unfiltered ==
    {j \in DOMAIN jobs : jobs[j].company_id \in DOMAIN companies}

\* SELECT j.* FROM jobs j JOIN companies c ON j.company_id=c.id WHERE j.active=1
list_active_jobs ==
    {j \in DOMAIN jobs : jobs[j].active = 1 /\ jobs[j].company_id \in DOMAIN companies}

\* SELECT j.* FROM jobs j JOIN companies c ON j.company_id=c.id WHERE j.active=0
list_removed_jobs ==
    {j \in DOMAIN jobs : jobs[j].active = 0 /\ jobs[j].company_id \in DOMAIN companies}

-----------------------------------------------------------------------------
(* diff_engine.py: the classifier behind snapshot_jobs.is_new_grad *)

LowerChar(c) ==
    CASE c = "A" -> "a" [] c = "B" -> "b" [] c = "C" -> "c" [] c = "D" -> "d"
      [] c = "E" -> "e" [] c = "F" -> "f" [] c = "G" -> "g" [] c = "H" -> "h"
      [] c = "I" -> "i" [] c = "J" -> "j" [] c = "K" -> "k" [] c = "L" -> "l"
      [] c = "M" -> "m" [] c = "N" -> "n" [] c = "O" -> "o" [] c = "P" -> "p"
      [] c = "Q" -> "q" [] c = "R" -> "r" [] c = "S" -> "s" [] c = "T" -> "t"
      [] c = "U" -> "u" [] c = "V" -> "v" [] c = "W" -> "w" [] c = "X" -> "x"
      [] c = "Y" -> "y" [] c = "Z" -> "z" [] OTHER -> c

RECURSIVE lower(_)
\* str.lower()
lower(s) == IF Len(s) = 0 THEN "" ELSE LowerChar(SubSeq(s, 1, 1)) \o lower(SubSeq(s, 2, Len(s)))

\* Python's  kw in s  on strings
Contains(s, kw) == \E i \in 1..(Len(s) - Len(kw) + 1) : SubSeq(s, i, i + Len(kw) - 1) = kw

\* mutant: "senior" is missing from the hard negatives
_NEGATIVE_TITLE_KEYWORDS_without_senior ==
    <<"sr", "staff", "principal", "lead", "manager", "director",
      "vice president", "vp", "head of", "architect", "contract", "contractor",
      "temporary", "temp", "consultant">>

_NEGATIVE_TITLE_KEYWORDS ==
    <<"senior", "sr", "staff", "principal", "lead", "manager", "director",
      "vice president", "vp", "head of", "architect", "contract", "contractor",
      "temporary", "temp", "consultant">>

_RESEARCH_TITLE_KEYWORDS == <<"research scientist", "research engineer", "researcher">>

_POSITIVE_TITLE_KEYWORDS ==
    <<"new grad", "new graduate", "early career", "university", "campus",
      "graduate program", "campus hire", "rotational", "university grad",
      "university graduate", "early in career", "campus recruiting", "college graduate",
      "entry level", "entry-level", "junior", "jr", "associate",
      "engineer i", "software engineer i", "developer i", "analyst i", "engineer 1",
      "software engineer 1", "level 1", "intern", "internship", "co-op", "coop">>


(* Regular expressions of the classifier, as sequences of elements:        *)
(*   B          \b                                                         *)
(*   Lit(s)     the literal text s                                         *)
(*   Alt(S)     (?:s1|s2|...) of literal texts                             *)
(*   Rep(C,m,n) between m and n characters of the class C                  *)
(*   RepMany(C,m)  m or more characters of the class C                     *)
B == [kind |-> "b"]
Lit(s) == [kind |-> "lit", text |-> s]
Alt(S) == [kind |-> "alt", texts |-> S]
Rep(C, m, n) == [kind |-> "rep", class |-> C, min |-> m, max |-> n]
RepMany(C, m) == [kind |-> "rep", class |-> C, min |-> m, max |-> -1]

Digit == {"0", "1", "2", "3", "4", "5", "6", "7", "8", "9"}
Digit3to9 == {"3", "4", "5", "6", "7", "8", "9"}
Space == {" ", "\t", "\n", "\r"}
WordChar ==
    Digit \cup {"_", "a", "b", "c", "d", "e", "f", "g", "h", "i", "j", "k", "l", "m",
                "n", "o", "p", "q", "r", "s", "t", "u", "v", "w", "x", "y", "z",
                "A", "B", "C", "D", "E", "F", "G", "H", "I", "J", "K", "L", "M",
                "N", "O", "P", "Q", "R", "S", "T", "U", "V", "W", "X", "Y", "Z"}
YearsYrs == Alt({"years", "yrs"})
\* the class [-–to]; the en dash is left out (no text of the model holds one)
DashTo == {"-", "t", "o"}

CharAt(t, i) == SubSeq(t, i, i)
IsWordAt(t, i) == i >= 1 /\ i <= Len(t) /\ CharAt(t, i) \in WordChar
\* \b at the gap before position pos
Boundary(t, pos) == IsWordAt(t, pos - 1) # IsWordAt(t, pos)
StartsAt(t, pos, lit) == pos + Len(lit) - 1 <= Len(t) /\ SubSeq(t, pos, pos + Len(lit) - 1) = lit

RECURSIVE MatchFrom(_, _, _, _)
MatchFrom(p, i, t, pos) ==
    IF i > Len(p) THEN TRUE
    ELSE LET e == p[i] IN
         CASE e.kind = "b" -> Boundary(t, pos) /\ MatchFrom(p, i + 1, t, pos)
           [] e.kind = "lit" -> StartsAt(t, pos, e.text) /\ MatchFrom(p, i + 1, t, pos + Len(e.text))
           [] e.kind = "alt" -> \E a \in e.texts :
                                    StartsAt(t, pos, a) /\ MatchFrom(p, i + 1, t, pos + Len(a))
           [] e.kind = "rep" -> \E n \in e.min..(Len(t) - pos + 1) :
                                    /\ (e.max < 0 \/ n <= e.max)
                                    /\ \A j \in 0..(n - 1) : CharAt(t, pos + j) \in e.class
                                    /\ MatchFrom(p, i + 1, t, pos + n)

\* re.search(pat, text) is not None
re_search(p, t) == \E pos \in 1..(Len(t) + 1) : MatchFrom(p, 1, t, pos)

Pat(src, elems) == [src |-> src, elems |-> elems]

_NEGATIVE_TEXT_PATTERNS ==
    << Pat("\\b[3-9]\\+?\\s*(?:years|yrs)\\b",
           <<B, Rep(Digit3to9, 1, 1), Rep({"+"}, 0, 1), RepMany(Space, 0), YearsYrs, B>>),
       Pat("\\b\\d{2}\\+?\\s*(?:years|yrs)\\b",
           <<B, Rep(Digit, 2, 2), Rep({"+"}, 0, 1), RepMany(Space, 0), YearsYrs, B>>),
       Pat("\\bminimum\\s+\\d+\\s*(?:years|yrs)\\b",
           <<B, Lit("minimum"), RepMany(Space, 1), RepMany(Digit, 1), RepMany(Space, 0),
             YearsYrs, B>>),
       Pat("\\b\\d+\\+?\\s*(?:years|yrs)\\s+of experience\\b",
           <<B, RepMany(Digit, 1), Rep({"+"}, 0, 1), RepMany(Space, 0), YearsYrs,
             RepMany(Space, 1), Lit("of experience"), B>>),
       Pat("\\bphd\\b", <<B, Lit("phd"), B>>),
       Pat("\\bpostdoc\\b", <<B, Lit("postdoc"), B>>),
       Pat("\\bmasters\\s+required\\b", <<B, Lit("masters"), RepMany(Space, 1), Lit("required"), B>>),
       Pat("\\bms\\s+required\\b", <<B, Lit("ms"), RepMany(Space, 1), Lit("required"), B>>) >>

RangePat(lo, hi) ==
    <<B, Lit(lo), RepMany(Space, 0), RepMany(DashTo, 1), RepMany(Space, 0), Lit(hi),
      RepMany(Space, 0), YearsYrs, B>>

_POSITIVE_TEXT_PATTERNS ==
    << Pat("\\b0\\s*[-to]+\\s*2\\s*(?:years|yrs)\\b", RangePat("0", "2")),
       Pat("\\b0\\s*[-to]+\\s*1\\s*(?:years|yrs)\\b", RangePat("0", "1")),
       Pat("\\b1\\s*[-to]+\\s*2\\s*(?:years|yrs)\\b", RangePat("1", "2")),
       Pat("\\bno prior experience\\b", <<B, Lit("no prior experience"), B>>),
       Pat("\\brecent graduate\\b", <<B, Lit("recent graduate"), B>>),
       Pat("\\bnew graduate\\b", <<B, Lit("new graduate"), B>>) >>

\* dict.get(key) on the (key, value) pairs of job.extra; None when absent
extra_get(extra, key) ==
    IF \E i \in DOMAIN extra : extra[i][1] = key
    THEN extra[CHOOSE i \in DOMAIN extra : extra[i][1] = key][2]
    ELSE None

DescriptionKeys ==
    <<"description", "descriptionPlain", "openingPlain", "jobDescription", "job_description",
      "qualifications", "requirements", "responsibilities", "content">>

RECURSIVE SelectSeqBy(_, _, _)
\* the values f(s[i]) of the elements of s for which f is not None or empty, in order
SelectSeqBy(s, i, extra) ==
    IF i > Len(s) THEN <<>>
    ELSE LET val == extra_get(extra, s[i])
         IN  (IF val # None /\ val # "" THEN <<val>> ELSE <<>>) \o SelectSeqBy(s, i + 1, extra)

\* _collect_text_blobs: the description keys' values, then every (scalar) value
_collect_text_blobs(job) ==
    IF Len(job.extra) = 0 THEN <<>>
    ELSE SelectSeqBy(DescriptionKeys, 1, job.extra)
         \o [i \in DOMAIN job.extra |-> job.extra[i][2]]

RECURSIVE JoinLines(_)
\* "\n".join(blobs)
JoinLines(blobs) ==
    IF Len(blobs) = 0 THEN ""
    ELSE IF Len(blobs) = 1 THEN blobs[1]
    ELSE blobs[1] \o "\n" \o JoinLines(Tail(blobs))

\* the first index of a loop at which a test hits, given the indexes that hit; 0 if none
FirstIndex(hits) == IF hits = {} THEN 0 ELSE CHOOSE i \in hits : \A j \in hits : i <= j

MetadataKeys ==
    <<"experienceLevel", "experience_level", "seniority", "level", "typeOfEmployment",
      "employmentType">>
MetaSenior == {"senior", "staff", "principal", "lead", "manager", "director"}
MetaEarly == {"entry", "junior", "intern", "graduate", "early", "new grad"}

\* the metadata loop: the first key (in order) whose label is non-empty and names a
\* seniority or an early-career level decides; 0 when no key does
MetaLabel(extra, key) == LET val == extra_get(extra, key) IN IF val = None THEN "" ELSE lower(val)
MetaDeciding(extra) ==
    LET Decides(key) == \E t \in MetaSenior \cup MetaEarly : Contains(MetaLabel(extra, key), t)
    IN  FirstIndex({i \in DOMAIN MetadataKeys : Decides(MetadataKeys[i])})

Verdict(ok, reasons) == [ok |-> ok, reasons |-> reasons]

\* classify_new_grad(job) -> (is_new_grad, reasons)
classify_new_grad(job) ==
    LET title == lower(IF job.title = None THEN "" ELSE job.title)
        NegHit(kw) == Contains(title, kw)
        bad == FirstIndex({i \in DOMAIN _NEGATIVE_TITLE_KEYWORDS : NegHit(_NEGATIVE_TITLE_KEYWORDS[i])})
        is_research_role == \E i \in DOMAIN _RESEARCH_TITLE_KEYWORDS :
                               Contains(title, _RESEARCH_TITLE_KEYWORDS[i])
        blobs == _collect_text_blobs(job)
        full_text == JoinLines(<<title>> \o [i \in DOMAIN blobs |-> lower(blobs[i])])
        PatHit(pat) == re_search(pat.elems, full_text)
        negpat == FirstIndex({i \in DOMAIN _NEGATIVE_TEXT_PATTERNS : PatHit(_NEGATIVE_TEXT_PATTERNS[i])})
        good == FirstIndex({i \in DOMAIN _POSITIVE_TITLE_KEYWORDS : NegHit(_POSITIVE_TITLE_KEYWORDS[i])})
        pospat == FirstIndex({i \in DOMAIN _POSITIVE_TEXT_PATTERNS : PatHit(_POSITIVE_TEXT_PATTERNS[i])})
        title_hits == IF good # 0
                      THEN <<"title contains \"" \o _POSITIVE_TITLE_KEYWORDS[good] \o "\"">>
                      ELSE <<>>
        text_hits == IF pospat # 0
                     THEN <<"matched positive requirement pattern: "
                            \o _POSITIVE_TEXT_PATTERNS[pospat].src>>
                     ELSE <<>>
        meta == IF Len(job.extra) = 0 THEN 0 ELSE MetaDeciding(job.extra)
        metaKey == MetadataKeys[meta]
        metaVal == extra_get(job.extra, metaKey)
        metaSenior == meta # 0 /\ \E t \in MetaSenior : Contains(MetaLabel(job.extra, metaKey), t)
        meta_hits == IF meta # 0 /\ ~metaSenior
                     THEN <<"extra." \o metaKey \o "=\"" \o metaVal \o "\"">>
                     ELSE <<>>
        positive_hits == title_hits \o text_hits \o meta_hits
    IN  IF bad # 0
        THEN Verdict(FALSE, <<"title contains \"" \o _NEGATIVE_TITLE_KEYWORDS[bad]
                               \o "\" (seniority)">>)
        ELSE IF negpat # 0
        THEN Verdict(FALSE, <<"matched negative requirement pattern: "
                               \o _NEGATIVE_TEXT_PATTERNS[negpat].src>>)
        ELSE IF metaSenior
        THEN Verdict(FALSE, <<"extra." \o metaKey \o "=\"" \o metaVal \o "\" (seniority)">>)
        ELSE IF is_research_role /\ positive_hits = <<>>
        THEN Verdict(FALSE, <<"research role with no explicit new-grad signals">>)
        ELSE IF positive_hits = <<>>
        THEN Verdict(FALSE, <<"no positive new-grad signals found">>)
        ELSE Verdict(TRUE, positive_hits)

\* is_new_grad(job) = classify_new_grad(job)[0], for the postings of the model
NewGradVerdict == [j \in Jobs |-> classify_new_grad(j)]
is_new_grad(job) == NewGradVerdict[job].ok

-----------------------------------------------------------------------------
(* persistence.py: persist_snapshot(db, timestamp, jobs, company_configs)  *)

Store == [runs |-> runs, run_errors |-> run_errors, companies |-> companies, jobs |-> jobs,
          job_versions |-> job_versions, snapshots |-> snapshots,
          snapshot_jobs |-> snapshot_jobs]

\* nothing read yet / what a reader read
NoView == [taken |-> FALSE, store |-> [runs |-> <<>>, run_errors |-> <<>>, companies |-> <<>>,
                                       jobs |-> <<>>, job_versions |-> <<>>, snapshots |-> <<>>,
                                       snapshot_jobs |-> {}]]

NoStore == [runs |-> <<>>, run_errors |-> <<>>, companies |-> <<>>, jobs |-> <<>>,
            job_versions |-> <<>>, snapshots |-> <<>>, snapshot_jobs |-> {}]

\* mutant: an unknown company name falls back to the first configuration
name_to_config_fallback(configs) ==
    [name \in {j.company : j \in Jobs} |->
        IF \E i \in DOMAIN configs : configs[i].name = name
        THEN configs[CHOOSE i \in DOMAIN configs :
                        configs[i].name = name
                        /\ \A j \in (i + 1)..Len(configs) : configs[j].name # name]
        ELSE configs[1]]

\* name_to_config = {cfg.name: cfg for cfg in company_configs}: the last entry of a name wins
name_to_config(configs) ==
    [name \in {configs[i].name : i \in DOMAIN configs} |->
        configs[CHOOSE i \in DOMAIN configs :
                   configs[i].name = name /\ \A j \in (i + 1)..Len(configs) : configs[j].name # name]]

\* the for-loop over jobs: the next position after the body for index i - 1
LoopPc(js, i) == IF i <= Len(js) THEN "resolve" ELSE "mark_removed"

\* mutant: the membership test against the current snapshot is missing
removed_ids_all(active_jobs, seen_ids) == active_jobs

\* removed_ids = [row["job_id"] for row in active_jobs if row["job_id"] not in snapshot_job_ids]
removed_ids(active_jobs, seen_ids) == {j \in active_jobs : j \notin seen_ids}

Submitted == LET RECURSIVE Sum(_)
                 Sum(i) == IF i = 0 THEN 0 ELSE Len(passes[i].jobs) + Sum(i - 1)
             IN  Sum(Len(passes))

SetOutcome(o) == [passes EXCEPT ![Len(passes)].outcome = o]

\* A caller (the demo scripts call it directly) invokes persist_snapshot.
Call(ts, js, cfgs) ==
    /\ s_pc = "off"
    /\ pc \in {"idle", "returned", "raised"}
    /\ timestamp' = ts
    /\ in_jobs' = js
    /\ company_configs' = cfgs
    /\ snapshot_id' = NULL
    /\ snapshot_job_ids' = {}
    /\ k' = 1
    /\ company_id' = NULL
    /\ version_id' = NULL
    /\ raised' = "none"
    /\ pc' = "insert_snapshot"
    /\ passes' = Append(passes, [timestamp |-> ts, jobs |-> js, configs |-> cfgs,
                                 outcome |-> "running"])
    /\ preStore' = Store
    /\ view' = NoView
    /\ UNCHANGED <<storeVars, schedVars, calcVars>>

\* Step 1: snapshot_id = db.insert_snapshot(timestamp)   (run_id defaults to None)
InsertSnapshot ==
    /\ pc = "insert_snapshot"
    /\ snapshots' = insert_snapshot(timestamp, NULL)
    /\ snapshot_id' = Len(snapshots')
    /\ pc' = LoopPc(in_jobs, 1)
    /\ UNCHANGED <<runs, run_errors, companies, jobs, job_versions, snapshot_jobs,
                   timestamp, in_jobs, company_configs, snapshot_job_ids, k, company_id,
                   version_id, raised, observerVars, schedVars, calcVars>>

\* Step 2, loop body up to upsert_company: unknown company raises ValueError
Resolve ==
    /\ pc = "resolve"
    /\ LET job == in_jobs[k]
           configs == name_to_config(company_configs)
           \* cfg = name_to_config.get(job.company)
           cfg == configs[job.company]
       IN  /\ snapshot_job_ids' = snapshot_job_ids \cup {job.job_id}
           /\ IF job.company \notin DOMAIN configs
              THEN /\ raised' = "ValueError"
                   /\ pc' = "raised"
                   /\ passes' = SetOutcome("raised")
                   /\ UNCHANGED <<companies, company_id>>
              ELSE /\ companies' = upsert_company(cfg.slug, cfg.name, cfg.ats)
                   /\ company_id' = company_id_of(companies', cfg.slug)
                   /\ pc' = "upsert_job"
                   /\ UNCHANGED <<raised, passes>>
    /\ UNCHANGED <<runs, run_errors, jobs, job_versions, snapshots, snapshot_jobs,
                   timestamp, in_jobs, company_configs, snapshot_id, k, version_id,
                   preStore, view, schedVars, calcVars>>

\* existing = db.get_job(job.job_id); insert_job if None else update_job_seen
UpsertJob ==
    /\ pc = "upsert_job"
    /\ LET job == in_jobs[k]
       IN  jobs' = IF ~get_job(job.job_id)
                   THEN insert_job(job.job_id, company_id, job.url, job.source,
                                   timestamp, timestamp)
                   ELSE update_job_seen(job.job_id, timestamp)
    /\ pc' = "insert_version"
    /\ UNCHANGED <<runs, run_errors, companies, job_versions, snapshots, snapshot_jobs,
                   timestamp, in_jobs, company_configs, snapshot_id, snapshot_job_ids, k,
                   company_id, version_id, raised, observerVars, schedVars, calcVars>>

\* version_id = db.insert_job_version(...)
InsertVersion ==
    /\ pc = "insert_version"
    /\ LET job == in_jobs[k]
       IN  job_versions' = insert_job_version(job.job_id, timestamp, job.title,
                                              location_or_empty(job), job.remote,
                                              extra_json(job))
    /\ version_id' = Len(job_versions')
    /\ pc' = "insert_membership"
    /\ UNCHANGED <<runs, run_errors, companies, jobs, snapshots, snapshot_jobs,
                   timestamp, in_jobs, company_configs, snapshot_id, snapshot_job_ids, k,
                   company_id, raised, observerVars, schedVars, calcVars>>

\* new_grad_flag = is_new_grad(job); db.insert_snapshot_job(...): a second row for the
\* same (snapshot_id, job_id) raises sqlite3.IntegrityError
InsertMembership ==
    /\ pc = "insert_membership"
    /\ LET job == in_jobs[k]
           new_grad_flag == is_new_grad(job)
       IN  IF snapshot_job_conflict(snapshot_id, job.job_id)
           THEN /\ raised' = "IntegrityError"
                /\ pc' = "raised"
                /\ passes' = SetOutcome("raised")
                /\ UNCHANGED <<snapshot_jobs, k>>
           ELSE /\ snapshot_jobs' = insert_snapshot_job(snapshot_id, job.job_id, version_id,
                                                        new_grad_flag)
                /\ k' = k + 1
                /\ pc' = LoopPc(in_jobs, k + 1)
                /\ UNCHANGED <<raised, passes>>
    /\ UNCHANGED <<runs, run_errors, companies, jobs, job_versions, snapshots,
                   timestamp, in_jobs, company_configs, snapshot_id, snapshot_job_ids,
                   company_id, version_id, preStore, view, schedVars, calcVars>>

\* Step 3: mark the active jobs absent from this snapshot as removed; return snapshot_id
MarkRemoved ==
    /\ pc = "mark_removed"
    /\ jobs' = mark_jobs_removed(removed_ids(list_active_jobs, snapshot_job_ids), timestamp)
    /\ pc' = "returned"
    /\ passes' = SetOutcome("returned")
    /\ UNCHANGED <<runs, run_errors, companies, job_versions, snapshots, snapshot_jobs,
                   timestamp, in_jobs, company_configs, snapshot_id, snapshot_job_ids, k,
                   company_id, version_id, raised, preStore, view, schedVars, calcVars>>

persist_snapshot ==
    \/ InsertSnapshot
    \/ Resolve
    \/ UpsertJob
    \/ InsertVersion
    \/ InsertMembership
    \/ MarkRemoved

InitStore ==
    /\ runs = <<>>
    /\ run_errors = <<>>
    /\ companies = <<>>
    /\ jobs = <<>>
    /\ job_versions = <<>>
    /\ snapshots = <<>>
    /\ snapshot_jobs = {}

InitPersist ==
    /\ pc = "idle"
    /\ timestamp = NULL
    /\ in_jobs = <<>>
    /\ company_configs = <<>>
    /\ snapshot_id = NULL
    /\ snapshot_job_ids = {}
    /\ k = 1
    /\ company_id = NULL
    /\ version_id = NULL
    /\ raised = "none"
    /\ passes = <<>>
    /\ preStore = NoStore
    /\ view = NoView

InitSchedOff ==
    /\ s_pc = "off"
    /\ s_companies = <<>>
    /\ iterations = 0
    /\ s_i = 0
    /\ s_ts = NULL
    /\ s_c = 1
    /\ s_jobs = <<>>
    /\ s_errors = <<>>
    /\ s_run_id = NULL
    /\ s_e = 1
    /\ s_io = <<>>

InitCalcOff ==
    /\ f_fn = "none"
    /\ f_in = <<>>
    /\ f_out = [done |-> FALSE]

Init == InitStore /\ InitPersist /\ InitSchedOff /\ InitCalcOff

JobLists == SeqsUpTo(Jobs, MaxLen)

\* The caller passes its configuration list to every call (the demos rebuild it with the
\* same names and slugs for each snapshot) and takes the timestamps from an advancing clock.
Caller ==
    /\ pc \in {"idle", "returned", "raised"}
    /\ Len(passes) < MaxPasses
    /\ LET room == MaxTotal - Submitted
           lists == {l \in JobLists : Len(l) <= room}
           cfgss == IF Len(passes) = 0 THEN ConfigLists ELSE {passes[1].configs}
       IN  \E js \in lists, cfgs \in cfgss : Call(Len(passes) + 1, js, cfgs)

Next == Caller \/ persist_snapshot

Spec == Init /\ [][Next]_vars

-----------------------------------------------------------------------------
(* A reader of the database on another connection: every commit is visible *)
(* to it, so it can read the store between any two steps of a pass.        *)

Read ==
    /\ pc \in {"resolve", "upsert_job", "insert_version", "insert_membership", "mark_removed"}
    /\ ~view.taken
    /\ view' = [taken |-> TRUE, store |-> Store]
    /\ UNCHANGED <<storeVars, persistVars, passes, preStore, schedVars, calcVars>>

ReaderNext == Next \/ Read

ReaderSpec == Init /\ [][ReaderNext]_vars

-----------------------------------------------------------------------------
(* collector.py collect_jobs and scheduler.py run_scheduler *)

\* what a source's adapter returns for a well-formed payload
SourceJobs(cfg) ==
    IF cfg.name = "ExampleCo" THEN {<<>>, <<JobA>>, <<JobA, JobB>>} ELSE {<<>>, <<JobC>>}

SupportedAts == {"greenhouse", "lever", "ashby", "smartrecruiters"}

\* What the GET of a remote fetch can do: a 2xx response with the provider's payload, a 2xx
\* response whose JSON has another shape, or a failure of requests.get (connection, timeout),
\* of resp.raise_for_status() (non-2xx) or of resp.json() (malformed body).
RemoteFailures == {"ConnectionError", "Timeout", "HTTPError", "JSONDecodeError"}
RemoteEvents == {"payload", "other shape"} \cup RemoteFailures

\* the I/O a source can meet: none when its ATS is unsupported or it has a json_path
IOEvents(cfg) ==
    IF lower(cfg.ats) \notin SupportedAts \/ cfg.json_path # None THEN {"none"} ELSE RemoteEvents

FetchReturned(js) == [raised |-> FALSE, jobs |-> js, error |-> ""]
FetchRaised(e) == [raised |-> TRUE, jobs |-> <<>>, error |-> e]

\* the payload loop of an adapter on a JSON value of another shape: greenhouse and ashby
\* call data.get on a list, lever and smartrecruiters call item.get on a str
ShapeError(ats) ==
    IF ats \in {"greenhouse", "ashby"}
    THEN "AttributeError: 'list' object has no attribute 'get'"
    ELSE "AttributeError: 'str' object has no attribute 'get'"

\* The try-block of collect_jobs for one company: the dispatch on company.ats and the
\* fetch_*_jobs call with allow_remote=True (run_live.py always passes True).
\*   - unsupported ATS: raise ValueError
\*   - json_path given: scheduler.CompanyConfig.json_path is a str, so path.open(...) in
\*     _load_json_from_file raises AttributeError
\*   - remote: an exception of the GET is logged and the adapter returns []; the payload
\*     loop runs outside that try
fetch_jobs(cfg, event, js) ==
    IF lower(cfg.ats) \notin SupportedAts
    THEN FetchRaised("ValueError: Unsupported ATS type: " \o cfg.ats)
    ELSE IF cfg.json_path # None
    THEN FetchRaised("AttributeError: 'str' object has no attribute 'open'")
    ELSE IF event \in RemoteFailures
    THEN FetchReturned(<<>>)
    ELSE IF event = "other shape"
    THEN FetchRaised(ShapeError(lower(cfg.ats)))
    ELSE FetchReturned(js)

\* mutant: the jobs of a source replace the jobs collected so far
all_jobs_replace(all_jobs, js) == js

\* all_jobs.extend(jobs)
all_jobs_extend(all_jobs, js) == all_jobs \o js

\* the dict appended to errors in the except-branch
error_record(company, e) ==
    [company_slug |-> company.slug, company_name |-> company.name, ats |-> company.ats,
     error |-> e]

CompanyLists ==
    { <<CfgCo, CfgLever>>, <<CfgLever>>, <<CfgFile, CfgCo>>, <<CfgCustom, CfgLever>> }

SchedIdle == s_pc \in {"off", "crashed"}

\* run_live.py starts run_scheduler on the database file; ts is read from the clock
Launch(cs, n) ==
    /\ SchedIdle
    /\ pc \in {"idle", "returned", "raised"}
    /\ Len(runs) < MaxRuns
    /\ s_companies' = cs
    /\ iterations' = n
    /\ s_i' = 0
    /\ s_pc' = "loop"
    /\ UNCHANGED <<s_ts, s_c, s_jobs, s_errors, s_run_id, s_e, s_io,
                   storeVars, persistVars, observerVars, calcVars>>

\* while True: i += 1; ts = datetime.now(timezone.utc); collect_jobs(...) begins
BeginPass ==
    /\ s_pc = "loop"
    /\ s_i' = s_i + 1
    /\ s_ts' = Len(runs) + 1
    /\ s_c' = 1
    /\ s_jobs' = <<>>
    /\ s_errors' = <<>>
    /\ s_io' = <<>>
    /\ s_pc' = "collect"
    /\ UNCHANGED <<s_companies, iterations, s_run_id, s_e,
                   storeVars, persistVars, observerVars, calcVars>>

\* collect_jobs, loop body: the adapter returns and all_jobs.extend(jobs)
CollectOk ==
    /\ s_pc = "collect"
    /\ s_c <= Len(s_companies)
    /\ LET company == s_companies[s_c]
       IN  \E event \in IOEvents(company) :
           \E js \in (IF event = "payload" THEN SourceJobs(company) ELSE {<<>>}) :
              LET got == fetch_jobs(company, event, js)
              IN  /\ ~got.raised
                  /\ s_jobs' = all_jobs_extend(s_jobs, got.jobs)
                  /\ s_io' = Append(s_io, [event |-> event, jobs |-> js])
    /\ s_c' = s_c + 1
    /\ UNCHANGED <<s_pc, s_companies, iterations, s_i, s_ts, s_errors, s_run_id, s_e,
                   storeVars, persistVars, observerVars, calcVars>>

\* collect_jobs, loop body: the adapter raises and one error record is appended
CollectFail ==
    /\ s_pc = "collect"
    /\ s_c <= Len(s_companies)
    /\ LET company == s_companies[s_c]
       IN  \E event \in IOEvents(company) :
              LET got == fetch_jobs(company, event, <<>>)
              IN  /\ got.raised
                  /\ s_errors' = Append(s_errors, error_record(company, got.error))
                  /\ s_io' = Append(s_io, [event |-> event, jobs |-> <<>>])
    /\ s_c' = s_c + 1
    /\ UNCHANGED <<s_pc, s_companies, iterations, s_i, s_ts, s_jobs, s_run_id, s_e,
                   storeVars, persistVars, observerVars, calcVars>>

\* collect_jobs returns (all_jobs, errors); with Database(db_path) as db:
\* run_id = db.insert_run(started_at=ts, companies_total=len(companies))
InsertRun ==
    /\ s_pc = "collect"
    /\ s_c > Len(s_companies)
    /\ runs' = insert_run(s_ts, Len(s_companies))
    /\ s_run_id' = Len(runs')
    /\ s_e' = 1
    /\ s_pc' = IF Len(s_errors) >= 1 THEN "insert_run_error" ELSE "persist"
    /\ UNCHANGED <<run_errors, companies, jobs, job_versions, snapshots, snapshot_jobs,
                   s_companies, iterations, s_i, s_ts, s_c, s_jobs, s_errors, s_io,
                   persistVars, observerVars, calcVars>>

\* for err in errors: db.insert_run_error(...)
InsertRunError ==
    /\ s_pc = "insert_run_error"
    /\ LET err == s_errors[s_e]
       IN  run_errors' = insert_run_error(s_run_id, s_ts, err.company_slug, err.company_name,
                                          err.ats, err.error)
    /\ s_e' = s_e + 1
    /\ s_pc' = IF s_e + 1 <= Len(s_errors) THEN "insert_run_error" ELSE "persist"
    /\ UNCHANGED <<runs, companies, jobs, job_versions, snapshots, snapshot_jobs,
                   s_companies, iterations, s_i, s_ts, s_c, s_jobs, s_errors, s_run_id, s_io,
                   persistVars, observerVars, calcVars>>

\* persist_snapshot(db=db, timestamp=ts, jobs=jobs, company_configs=companies, run_id=run_id):
\* persist_snapshot has no parameter run_id, so the call raises TypeError before its body
\* runs; the with-block closes the connection and the exception leaves run_scheduler.
\* finish_run, the summary line, the iterations test and the sleep are never reached.
CallPersist ==
    /\ s_pc = "persist"
    /\ s_pc' = "crashed"
    /\ UNCHANGED <<s_companies, iterations, s_i, s_ts, s_c, s_jobs, s_errors, s_run_id, s_e,
                   s_io, storeVars, persistVars, observerVars, calcVars>>

run_scheduler ==
    \/ BeginPass
    \/ CollectOk
    \/ CollectFail
    \/ InsertRun
    \/ InsertRunError
    \/ CallPersist

Launcher == \E cs \in CompanyLists, n \in 0..MaxIterations : Launch(cs, n)

SchedNext == Launcher \/ run_scheduler

SchedSpec == Init /\ [][SchedNext]_vars

-----------------------------------------------------------------------------
(* A database file written first by direct calls of persist_snapshot (the  *)
(* demo scripts) and then by run_live.py --db on the same file.            *)

MaxSeeds == 2   \* direct calls of persist_snapshot before the scheduler is started

SeedLists == {<<JobA>>, <<JobA, JobC>>, <<JobC, JobB, JobB2>>}

\* demo_multi_persistence.py: persist_snapshot(db, snapshot_time, jobs, companies)
Seeder ==
    /\ Len(passes) < MaxSeeds
    /\ \E js \in SeedLists : Call(Len(passes) + 1, js, <<CfgCo, CfgLever>>)

\* run_live.py --db <file> --iterations n, with the two companies of the file in companies.yaml
LiveLauncher == \E n \in 0..1 : Launch(<<CfgCo, CfgLever>>, n)

LiveNext == Seeder \/ persist_snapshot \/ LiveLauncher \/ run_scheduler

LiveSpec == Init /\ [][LiveNext]_vars

-----------------------------------------------------------------------------
(* models.py JobSnapshot.index_by_id and diff_engine.py compute_diff *)

MaxSnapshotLen == 2  \* postings of one in-memory snapshot

\* JobB with another title and nothing else changed
JobBTitle == Job("B", "ExampleCo", "Senior Software Engineer II", None,
                 "https://boards.greenhouse.io/exampleco/jobs/2", "greenhouse", None,
                 << <<"department", "Engineering">> >>)
\* JobC with a second extra key, and the same dict built in the other order
JobC2 == Job("C", "ExampleLever", "Research Scientist", "Remote",
             "https://jobs.lever.co/example-lever/3", "lever", "True",
             << <<"team", "ML">>, <<"department", "Research">> >>)
JobC3 == Job("C", "ExampleLever", "Research Scientist", "Remote",
             "https://jobs.lever.co/example-lever/3", "lever", "True",
             << <<"department", "Research">>, <<"team", "ML">> >>)

DiffJobs == {JobA, JobB, JobBTitle, JobB2, JobC, JobC2, JobC3}

JobSnapshot(ts, js) == [timestamp |-> ts, jobs |-> js]

RECURSIVE dict_keys(_)
\* the keys of {job.job_id: job for job in jobs}, in insertion order
dict_keys(js) ==
    IF Len(js) = 0 THEN <<>>
    ELSE LET front == dict_keys(SubSeq(js, 1, Len(js) - 1))
             id == js[Len(js)].job_id
         IN  IF id \in Range(front) THEN front ELSE Append(front, id)

\* {job.job_id: job for job in self.jobs}: the last posting of an id is its value
index_by_id(snapshot) ==
    LET js == snapshot.jobs
    IN  [id \in {js[i].job_id : i \in DOMAIN js} |->
            js[CHOOSE i \in DOMAIN js :
                  js[i].job_id = id /\ \A h \in (i + 1)..Len(js) : js[h].job_id # id]]

\* mutant: extra is not compared
DiffFields_without_extra == <<"title", "location", "remote">>

\* for field in ["title", "location", "remote", "extra"]
DiffFields == <<"title", "location", "remote", "extra">>

\* old_val != new_val; two dicts are equal when they hold the same items, in any order
differs(field, old_val, new_val) ==
    IF field = "extra" THEN Range(old_val) # Range(new_val) ELSE old_val # new_val

\* changes: the (old, new) pair of every compared field whose values differ
changes_of(old_job, new_job) ==
    LET hit == {i \in DOMAIN DiffFields :
                   differs(DiffFields[i], old_job[DiffFields[i]], new_job[DiffFields[i]])}
    IN  [field \in {DiffFields[i] : i \in hit} |-> <<old_job[field], new_job[field]>>]

JobDiff(job_id, old, new, changes) ==
    [job_id |-> job_id, old |-> old, new |-> new, changes |-> changes]

RECURSIVE MapSeq(_, _, _)
\* [f[key] for key in keys if key in keep], in the order of keys
MapSeq(keys, keep, f) ==
    IF Len(keys) = 0 THEN <<>>
    ELSE (IF Head(keys) \in keep THEN <<f[Head(keys)]>> ELSE <<>>) \o MapSeq(Tail(keys), keep, f)

\* compute_diff(old_snapshot, new_snapshot) -> {"new": ..., "removed": ..., "changed": ...}
compute_diff(old_snapshot, new_snapshot) ==
    LET old_index == index_by_id(old_snapshot)
        new_index == index_by_id(new_snapshot)
        old_keys == dict_keys(old_snapshot.jobs)
        new_keys == dict_keys(new_snapshot.jobs)
        both == DOMAIN old_index \cap DOMAIN new_index
        diffs == [id \in both |->
                     JobDiff(id, old_index[id], new_index[id],
                             changes_of(old_index[id], new_index[id]))]
    IN  [new |-> MapSeq(new_keys, DOMAIN new_index \ DOMAIN old_index, new_index),
         removed |-> MapSeq(old_keys, DOMAIN old_index \ DOMAIN new_index, old_index),
         changed |-> MapSeq(new_keys, {id \in both : DOMAIN diffs[id].changes # {}}, diffs)]

-----------------------------------------------------------------------------
(* normalize.py canonicalize_url, with the urllib.parse functions it calls *)

Letters == WordChar \ (Digit \cup {"_"})
SchemeChars == Letters \cup Digit \cup {"+", "-", "."}

RECURSIVE Split(_, _)
\* str.split(sep) for a one-character sep
Split(str, sep) ==
    LET at == FirstIndex({i \in 1..Len(str) : CharAt(str, i) = sep})
    IN  IF at = 0 THEN <<str>>
        ELSE <<SubSeq(str, 1, at - 1)>> \o Split(SubSeq(str, at + 1, Len(str)), sep)

RECURSIVE rstrip(_, _)
\* str.rstrip(chars)
rstrip(str, chars) ==
    IF Len(str) > 0 /\ CharAt(str, Len(str)) \in chars
    THEN rstrip(SubSeq(str, 1, Len(str) - 1), chars)
    ELSE str

RECURSIVE lstrip(_, _)
\* str.lstrip(chars)
lstrip(str, chars) ==
    IF Len(str) > 0 /\ CharAt(str, 1) \in chars
    THEN lstrip(SubSeq(str, 2, Len(str)), chars)
    ELSE str

\* str.strip()
strip(str) == lstrip(rstrip(str, Space), Space)

RECURSIVE without(_, _)
\* str with every character of chars removed
without(str, chars) ==
    IF Len(str) = 0 THEN ""
    ELSE (IF CharAt(str, 1) \in chars THEN "" ELSE CharAt(str, 1))
         \o without(SubSeq(str, 2, Len(str)), chars)

UsesParams ==
    {"", "ftp", "hdl", "prospero", "http", "imap", "https", "shttp", "rtsp", "rtsps",
     "rtspu", "sip", "sips", "mms", "sftp", "tel"}

\* str.partition(sep) for a one-character sep: the text before and the text after the first
\* sep, the whole text and "" where there is none
partition(str, sep) ==
    LET at == FirstIndex({i \in 1..Len(str) : CharAt(str, i) = sep})
    IN  IF at = 0 THEN <<str, "">>
        ELSE <<SubSeq(str, 1, at - 1), SubSeq(str, at + 1, Len(str))>>

\* urlsplit: the index of the ":" that ends a scheme, 0 where the URL has none
scheme_end(url) ==
    LET colon == FirstIndex({i \in 1..Len(url) : CharAt(url, i) = ":"})
    IN  IF /\ colon > 1
           /\ CharAt(url, 1) \in Letters
           /\ \A i \in 1..(colon - 1) : CharAt(url, i) \in SchemeChars
        THEN colon ELSE 0

\* _splitnetloc(url, 2) after a leading "//": the netloc and the rest
_splitnetloc(rest) ==
    IF ~StartsAt(rest, 1, "//") THEN <<"", rest>>
    ELSE LET after == SubSeq(rest, 3, Len(rest))
             delim == FirstIndex({i \in 1..Len(after) : CharAt(after, i) \in {"/", "?", "#"}})
         IN  IF delim = 0 THEN <<after, "">>
             ELSE <<SubSeq(after, 1, delim - 1), SubSeq(after, delim, Len(after))>>

\* _splitparams: the path and the params, split at the first ";" of the last path segment
_splitparams(scheme, full_path) ==
    LET slashes == {i \in 1..Len(full_path) : CharAt(full_path, i) = "/"}
        last_slash == IF slashes = {} THEN 0 ELSE CHOOSE i \in slashes : \A j \in slashes : j <= i
        semi == IF scheme \notin UsesParams THEN 0
                ELSE FirstIndex({i \in 1..Len(full_path) :
                                    i > last_slash /\ CharAt(full_path, i) = ";"})
    IN  IF semi = 0 THEN <<full_path, "">>
        ELSE <<SubSeq(full_path, 1, semi - 1), SubSeq(full_path, semi + 1, Len(full_path))>>

\* urlparse, last step: the path is split from its params
urlparse_params(scheme, netloc, full_path, query, fragment) ==
    LET split == _splitparams(scheme, full_path)
    IN  [scheme |-> scheme, netloc |-> netloc, path |-> split[1], params |-> split[2],
         query |-> query, fragment |-> fragment]

\* urlsplit, fourth step: the query is what follows the first "?"
urlsplit_query(scheme, netloc, no_fragment, fragment) ==
    LET split == partition(no_fragment, "?")
    IN  urlparse_params(scheme, netloc, split[1], split[2], fragment)

\* urlsplit, third step: the fragment is what follows the first "#"
urlsplit_fragment(scheme, netloc, tail) ==
    LET split == partition(tail, "#")
    IN  urlsplit_query(scheme, netloc, split[1], split[2])

\* urlsplit, second step: the netloc follows a leading "//"
urlsplit_netloc(scheme, rest) ==
    LET split == _splitnetloc(rest)
    IN  urlsplit_fragment(scheme, split[1], split[2])

\* urlsplit, first step: the scheme is lowered and cut off
urlsplit_scheme(url) ==
    LET colon == scheme_end(url)
    IN  IF colon = 0 THEN urlsplit_netloc("", url)
        ELSE urlsplit_netloc(lower(SubSeq(url, 1, colon - 1)), SubSeq(url, colon + 1, Len(url)))

\* urlparse(raw): scheme, netloc, path, params, query, fragment; leading blanks are
\* stripped and tab, CR and LF removed before the split
urlparse(raw) == urlsplit_scheme(without(lstrip(raw, Space), {"\t", "\r", "\n"}))

\* the characters quote_plus escapes, among those of the model's URLs; unquote_plus decodes
\* the same escapes
PercentCodes ==
    << <<"/", "%2F">>, <<":", "%3A">>, <<"+", "%2B">>, <<"%", "%25">>, <<"=", "%3D">>,
       <<"&", "%26">>, <<"?", "%3F">>, <<"|", "%7C">>, <<",", "%2C">>, <<"@", "%40">> >>

RECURSIVE unquote_plus(_)
\* name.replace("+", " ") and unquote
unquote_plus(str) ==
    IF Len(str) = 0 THEN ""
    ELSE LET code == FirstIndex({i \in DOMAIN PercentCodes : StartsAt(str, 1, PercentCodes[i][2])})
         IN  IF code # 0
             THEN PercentCodes[code][1] \o unquote_plus(SubSeq(str, 4, Len(str)))
             ELSE (IF CharAt(str, 1) = "+" THEN " " ELSE CharAt(str, 1))
                  \o unquote_plus(SubSeq(str, 2, Len(str)))

RECURSIVE quote_plus(_)
quote_plus(str) ==
    IF Len(str) = 0 THEN ""
    ELSE LET c == CharAt(str, 1)
             code == FirstIndex({i \in DOMAIN PercentCodes : PercentCodes[i][1] = c})
         IN  (IF c = " " THEN "+" ELSE IF code # 0 THEN PercentCodes[code][2] ELSE c)
             \o quote_plus(SubSeq(str, 2, Len(str)))

RECURSIVE pairs_of(_)
\* the loop of parse_qsl over qs.split("&") with keep_blank_values=True
pairs_of(fields) ==
    IF Len(fields) = 0 THEN <<>>
    ELSE LET name_value == Head(fields)
             eq == FirstIndex({i \in 1..Len(name_value) : CharAt(name_value, i) = "="})
             name == IF eq = 0 THEN name_value ELSE SubSeq(name_value, 1, eq - 1)
             value == IF eq = 0 THEN "" ELSE SubSeq(name_value, eq + 1, Len(name_value))
         IN  (IF name_value = "" THEN <<>> ELSE << <<unquote_plus(name), unquote_plus(value)>> >>)
             \o pairs_of(Tail(fields))

\* parse_qsl(query, keep_blank_values=True)
parse_qsl(query) == IF query = "" THEN <<>> ELSE pairs_of(Split(query, "&"))

RECURSIVE urlencode(_)
\* urlencode(list of pairs)
urlencode(params) ==
    IF Len(params) = 0 THEN ""
    ELSE quote_plus(params[1][1]) \o "=" \o quote_plus(params[1][2])
         \o (IF Len(params) > 1 THEN "&" ELSE "") \o urlencode(Tail(params))

UsesNetloc ==
    {"ftp", "http", "gopher", "nntp", "telnet", "imap", "wais", "file", "mms", "https",
     "shttp", "snews", "prospero", "rtsp", "rtsps", "rtspu", "rsync", "svn", "svn+ssh",
     "sftp", "nfs", "git", "git+ssh", "ws", "wss"}

\* urlunparse((scheme, netloc, path, "", query, ""))
urlunparse(scheme, netloc, path, query) ==
    LET with_netloc ==
            IF netloc # "" \/ (scheme \in UsesNetloc /\ ~StartsAt(path, 1, "//"))
            THEN "//" \o netloc \o (IF path # "" /\ CharAt(path, 1) # "/" THEN "/" ELSE "") \o path
            ELSE path
        with_scheme == IF scheme # "" THEN scheme \o ":" \o with_netloc ELSE with_netloc
    IN  IF query # "" THEN with_scheme \o "?" \o query ELSE with_scheme

\* mutant: only the utm_* keys are dropped
tracking_keys_utm_only ==
    {"utm_source", "utm_medium", "utm_campaign", "utm_term", "utm_content"}

tracking_keys ==
    {"utm_source", "utm_medium", "utm_campaign", "utm_term", "utm_content",
     "ref", "referrer", "gh_src", "gh_jid", "source", "src"}

RECURSIVE cleaned_params(_)
\* [(k, v) for k, v in query_params if k.lower() not in tracking_keys]
cleaned_params(query_params) ==
    IF Len(query_params) = 0 THEN <<>>
    ELSE (IF lower(Head(query_params)[1]) \notin tracking_keys
          THEN <<Head(query_params)>> ELSE <<>>)
         \o cleaned_params(Tail(query_params))

\* canonicalize_url(url)
canonicalize_url(url) ==
    IF url = "" THEN url
    ELSE LET parsed == urlparse(url)
             scheme == lower(parsed.scheme)
             netloc == lower(parsed.netloc)
             path == rstrip(parsed.path, {"/"})
             query == urlencode(cleaned_params(parse_qsl(parsed.query)))
         IN  urlunparse(scheme, netloc, path, query)

-----------------------------------------------------------------------------
(* models.py stable_job_id and the payload loop of fetchers.py fetch_greenhouse_jobs *)

MaxPayloadLen == 1  \* records of one provider payload

\* hashlib.sha256(key.encode("utf-8")).hexdigest(), tabulated for the keys of the model
sha256_hexdigest(key) ==
    CASE key = "ExampleCo|" ->
             "5dd8620577db9e9dfc20dea75c18c57679133c805ff01c375354c4fd6d91d6b4"
      [] key = "ExampleCo|https://boards.greenhouse.io/exampleco/jobs/1" ->
             "866bb2610fcdb1bab9a5ef01b5bd320b4d4bc8a342e6d1c3d88626c441548acb"
      [] key = "ExampleCo|Careers|https://boards.greenhouse.io/exampleco/jobs/1" ->
             "bf803be912128d27ce1cf964a95c1f56e7f7052e45118d4ee8df35ebf2388075"
      [] key = "ExampleCo|https://boards.greenhouse.io/exampleco/jobs/1?gh_src=abc" ->
             "6554b86c2deac1c70754d20dab34e6a5e3cf46ca7b54a24ecaf69ea7416a18ff"
      [] key = "ExampleCo|https://jobs.lever.co/example-lever/3" ->
             "d531246c9e3f7c892dc81a6572519f5e5337b8e15c58c06196006e10651f8f2e"
      [] key = "ExampleCo|Careers|Careers|https://boards.greenhouse.io/exampleco/jobs/1" ->
             "8923bad1d23a6bfcc3b324e5377eaafdedda79e27c7b4025e7b57736a5f6ea3e"
      [] key = "ExampleCo|Careers|https://boards.greenhouse.io/exampleco/jobs/1?gh_src=abc" ->
             "1dbd702b4f9b1ab00c6b1e5042b87a1664e99fbdd7705e84253b8f885cddc6e3"
      [] key = "ExampleCo|Careers|https://jobs.lever.co/example-lever/3" ->
             "c926f087c1b10fb14946efcd6b26b7449c1c4a4e7bdbd64593c5901ac52191f8"
      [] key = "ExampleLever|https://boards.greenhouse.io/exampleco/jobs/1" ->
             "a1c6e1c8982032dabf5ef8be193242516b0d8f21e238bf6b7ab618ad1ead80ea"
      [] key = "ExampleLever|Careers|https://boards.greenhouse.io/exampleco/jobs/1" ->
             "0d9f0dd9cd20aad0b51cef2862256ae8a493f4188364785d7b50d9736080ee93"
      [] key = "ExampleLever|https://boards.greenhouse.io/exampleco/jobs/1?gh_src=abc" ->
             "c28a231becadf52865da96c585092a88d60783e2c376997eacfad79f0494e433"
      [] key = "ExampleLever|https://jobs.lever.co/example-lever/3" ->
             "3dbc8302ec96c14904b6566d1074a40acecb594fcf2597e5c5c5cf8158c80b74"
      [] key = "ExampleCo|https://boards.greenhouse.io/exampleco/jobs/1/" ->
             "be8b0c57fc4eeb711dae49794253d902762da0cb562d0b2b30418d510417faec"
      [] key = "ExampleCo|HTTPS://Boards.Greenhouse.io/exampleco/jobs/1" ->
             "fcc066f023b72ec1feb6bbdeae1bd682e222e00a38633ad1dfa7962249bc5430"
      [] key = "ExampleCo|https://boards.greenhouse.io/exampleco/jobs/2" ->
             "163ce5d772d0ac252640815562991a7f5049e094720fab3c8d92a5a3b144ef23"

\* mutant: the company is not part of the hashed key
stable_job_id_url_only(company, url) ==
    SubSeq(sha256_hexdigest("ExampleCo" \o "|" \o url), 1, 24)

\* hashlib.sha256(f"{company}|{url}".encode("utf-8")).hexdigest()[:24]
stable_job_id(company, url) == SubSeq(sha256_hexdigest(company \o "|" \o url), 1, 24)

IdCompanies == {"ExampleCo", "ExampleCo|Careers", "ExampleLever"}
IdUrls ==
    {"https://boards.greenhouse.io/exampleco/jobs/1",
     "Careers|https://boards.greenhouse.io/exampleco/jobs/1",
     "https://boards.greenhouse.io/exampleco/jobs/1?gh_src=abc",
     "https://jobs.lever.co/example-lever/3"}
IdPairs == {[company |-> c, url |-> u] : c \in IdCompanies, u \in IdUrls}
IdInputs == {[a |-> a, b |-> b] : a \in IdPairs, b \in IdPairs}

\* x or ""
or_empty(x) == IF x = None THEN "" ELSE x

\* the remote flag an adapter reads off the location text
remote_flag(location) ==
    IF Contains(lower(location), "remote") \/ Contains(lower(location), "anywhere")
    THEN "True"
    ELSE IF location # "" THEN "False" ELSE None

RECURSIVE greenhouse_jobs(_, _)
\* for j in data.get("jobs", []): a record without a URL is skipped, every other record
\* becomes a Job whose job_id is stable_job_id(company_name, url) of the stripped raw URL
greenhouse_jobs(company_name, records) ==
    IF Len(records) = 0 THEN <<>>
    ELSE LET j == Head(records)
             title == strip(or_empty(j.title))
             url == strip(or_empty(j.absolute_url))
             location == strip(or_empty(j.location.name))
         IN  (IF url = "" THEN <<>>
              ELSE <<Job(stable_job_id(company_name, url), company_name, title, location,
                         url, "greenhouse", remote_flag(location), <<>>)>>)
             \o greenhouse_jobs(company_name, Tail(records))

\* fetch_greenhouse_jobs(board_token, company_name, ...) once the payload is loaded
fetch_greenhouse_jobs(company_name, data) == greenhouse_jobs(company_name, data.jobs)

GreenhouseUrls ==
    {"https://boards.greenhouse.io/exampleco/jobs/1",
     "https://boards.greenhouse.io/exampleco/jobs/1?gh_src=abc",
     "https://boards.greenhouse.io/exampleco/jobs/1/",
     "HTTPS://Boards.Greenhouse.io/exampleco/jobs/1",
     "https://boards.greenhouse.io/exampleco/jobs/2"}
GreenhouseRecords ==
    {[title |-> " Software Engineer I ", absolute_url |-> u, location |-> [name |-> l]] :
        u \in GreenhouseUrls \cup {"", " "}, l \in {"Remote", ""}}
GreenhousePayloads == {[jobs |-> r] : r \in SeqsUpTo(GreenhouseRecords, MaxPayloadLen)}
\* the payloads a board returns in two consecutive passes
FetchInputs ==
    {[company_name |-> "ExampleCo", first |-> p, second |-> q] :
        p \in GreenhousePayloads, q \in GreenhousePayloads}

-----------------------------------------------------------------------------
(* fetchers.py: the payload loops of the ashby, smartrecruiters and lever  *)
(* adapters, and the dispatch of collect_jobs on the ATS type              *)

MaxRecords == 2  \* records of one payload handed to an adapter

\* a or b, for values that are None or text
first_of(a, b) == IF a # None /\ a # "" THEN a ELSE b

\* mutant: a record without a URL is not skipped
skipped_never(url) == FALSE

\* if not url: continue
skipped(url) == url = ""

RECURSIVE ashby_jobs(_, _)
\* for j in data.get("jobs", []), for a location given as text and no isRemote field
ashby_jobs(company_name, records) ==
    IF Len(records) = 0 THEN <<>>
    ELSE LET j == Head(records)
             title == strip(or_empty(j.title))
             location == IF first_of(j.location, None) # None THEN strip(j.location) ELSE ""
             url == strip(or_empty(first_of(j.jobUrl, j.applyUrl)))
             extra == << <<"descriptionPlain", None>>, <<"jobUrl", url>>,
                         <<"applyUrl", j.applyUrl>> >>
         IN  (IF skipped(url) THEN <<>>
              ELSE <<Job(stable_job_id(company_name, url), company_name, title, location,
                         url, "ashby", remote_flag(location), extra)>>)
             \o ashby_jobs(company_name, Tail(records))

fetch_ashby_jobs(company_name, data) == ashby_jobs(company_name, data.jobs)

RECURSIVE smartrecruiters_jobs(_, _)
\* for p in postings, for a location object that holds a city only and no remote field
smartrecruiters_jobs(company_name, postings) ==
    IF Len(postings) = 0 THEN <<>>
    ELSE LET post == Head(postings)
             title == strip(or_empty(first_of(post.name, None)))
             city == first_of(post.location.city, None)
             location == IF city # None THEN city ELSE ""
             url == strip(or_empty(first_of(post.postingUrl,
                                            first_of(post.applyUrl, post.ref))))
             extra == << <<"typeOfEmployment", None>>, <<"experienceLevel", None>>,
                         <<"industry", None>>, <<"department", None>>, <<"function", None>>,
                         <<"postingUrl", url>>, <<"applyUrl", post.applyUrl>> >>
         IN  (IF skipped(url) THEN <<>>
              ELSE <<Job(stable_job_id(company_name, url), company_name, title, location,
                         url, "smartrecruiters", remote_flag(location), extra)>>)
             \o smartrecruiters_jobs(company_name, Tail(postings))

\* postings = data.get("content") for a dict payload
fetch_smartrecruiters_jobs(company_name, data) ==
    smartrecruiters_jobs(company_name, data.content)

RECURSIVE lever_jobs(_, _)
\* for item in data
lever_jobs(company_name, items) ==
    IF Len(items) = 0 THEN <<>>
    ELSE LET item == Head(items)
             title == strip(or_empty(item.text))
             categories == item.categories
             location == IF first_of(categories.location, None) # None
                         THEN strip(categories.location) ELSE ""
             url == first_of(strip(or_empty(item.hostedUrl)), strip(or_empty(item.applyUrl)))
             extra == << <<"categories", << <<"location", categories.location>> >> >>,
                         <<"department", None>>, <<"description", None>>,
                         <<"listedAt", None>> >>
         IN  (IF skipped(url) THEN <<>>
              ELSE <<Job(stable_job_id(company_name, url), company_name, title, location,
                         url, "lever", remote_flag(location), extra)>>)
             \o lever_jobs(company_name, Tail(items))

fetch_lever_jobs(company_name, data) == lever_jobs(company_name, data)

\* the dispatch of collect_jobs on company.ats.lower()
adapter_jobs(ats_type, company_name, data) ==
    CASE ats_type = "greenhouse" -> fetch_greenhouse_jobs(company_name, data)
      [] ats_type = "lever" -> fetch_lever_jobs(company_name, data)
      [] ats_type = "ashby" -> fetch_ashby_jobs(company_name, data)
      [] ats_type = "smartrecruiters" -> fetch_smartrecruiters_jobs(company_name, data)

\* what a provider puts in a URL field: nothing, blank text, or a URL
PrimaryUrls == {None, " ", " https://boards.greenhouse.io/exampleco/jobs/1 "}
SecondaryUrls == {None, "https://boards.greenhouse.io/exampleco/jobs/2"}
RefUrls == {None, "https://jobs.lever.co/example-lever/3"}

AtsRecords(ats_type) ==
    CASE ats_type = "greenhouse" ->
             {[title |-> "Software Engineer I", absolute_url |-> u, location |-> [name |-> l]] :
                 u \in PrimaryUrls \cup SecondaryUrls, l \in {None, "Remote"}}
      [] ats_type = "lever" ->
             {[text |-> "Software Engineer I", hostedUrl |-> u, applyUrl |-> a,
               categories |-> [location |-> l]] :
                 u \in PrimaryUrls, a \in SecondaryUrls, l \in {None, "Remote"}}
      [] ats_type = "ashby" ->
             {[title |-> "Software Engineer I", jobUrl |-> u, applyUrl |-> a, location |-> l] :
                 u \in PrimaryUrls, a \in SecondaryUrls, l \in {None, "Remote"}}
      [] ats_type = "smartrecruiters" ->
             {[name |-> "Software Engineer I", postingUrl |-> u, applyUrl |-> a, ref |-> r,
               location |-> [city |-> "Remote"]] :
                 u \in PrimaryUrls, a \in SecondaryUrls, r \in RefUrls}

\* the payload of each provider around its records
AtsPayload(ats_type, records) ==
    CASE ats_type \in {"greenhouse", "ashby"} -> [jobs |-> records]
      [] ats_type = "lever" -> records
      [] ats_type = "smartrecruiters" -> [content |-> records]

AdapterInputs(ats_type) ==
    {[company_name |-> "ExampleCo", records |-> r, data |-> AtsPayload(ats_type, r)] :
        r \in SeqsUpTo(AtsRecords(ats_type), MaxRecords)}

-----------------------------------------------------------------------------
(* One application of a pure function to arguments drawn from a bounded set *)

NotApplied == [done |-> FALSE]
Applied(value) == [done |-> TRUE, value |-> value]

SnapshotLists == SeqsUpTo(DiffJobs, MaxSnapshotLen)

\* postings for the classifier: every title with every extra
ClassifierTitles ==
    {"Senior Software Engineer", "Senior New Grad Engineer", "Staff Engineer I",
     "Principal Intern", "Tech Lead", "Engineering Manager", "Director of Campus Recruiting",
     "VP Engineering", "Head of University Programs", "Solutions Architect", "Contractor",
     "Junior Consultant", "New Grad Software Engineer", "Software Engineer",
     "Research Scientist", "Research Scientist Intern"}
ClassifierExtras ==
    { <<>>,
      << <<"department", "Engineering">> >>,
      << <<"description", "0-2 years of experience">> >>,
      << <<"description", "Recent graduate welcome">> >>,
      << <<"requirements", "2 years of experience">> >>,
      << <<"requirements", "5+ years building systems">> >>,
      << <<"description", "PhD preferred">> >>,
      << <<"experienceLevel", "Entry Level">> >>,
      << <<"seniority", "Senior">> >>,
      << <<"description", "Recent graduate welcome">>, <<"experienceLevel", "Entry Level">> >> }
ClassifierJobs ==
    {Job("X", "ExampleCo", title, "", "https://boards.greenhouse.io/exampleco/jobs/9",
         "greenhouse", None, extra) : title \in ClassifierTitles, extra \in ClassifierExtras}
DiffInputs == {[old |-> JobSnapshot(1, o), new |-> JobSnapshot(2, n)] :
                  o \in SnapshotLists, n \in SnapshotLists}

MaxParams == 3  \* query parameters of one URL

\* URLs for canonicalize_url, assembled from a scheme, a host, a path and query parameters
UrlSchemes == {"https", "HTTPS"}
UrlHosts == {"x.com", "X.com"}
UrlPaths == {"", "/", "/job", "/job/", "/Job/1//"}
QueryParams ==
    {<<"utm_source", "x">>, <<"gh_jid", "1">>, <<"foo", "bar">>, <<"Ref", "y">>,
     <<"q", "a%20b">>}

RECURSIVE query_of(_)
query_of(params) ==
    IF Len(params) = 0 THEN ""
    ELSE params[1][1] \o "=" \o params[1][2]
         \o (IF Len(params) > 1 THEN "&" ELSE "") \o query_of(Tail(params))

url_of(scheme, host, path, params) ==
    scheme \o "://" \o host \o path \o (IF Len(params) = 0 THEN "" ELSE "?" \o query_of(params))

UrlInputs ==
    {[url |-> url_of(scheme, host, path, params), scheme |-> scheme, host |-> host,
      path |-> path, params |-> params] :
        scheme \in UrlSchemes, host \in UrlHosts, path \in UrlPaths,
        params \in SeqsUpTo(QueryParams, MaxParams)}

FnInit ==
    /\ InitStore /\ InitPersist /\ InitSchedOff
    /\ f_out = NotApplied
    /\ \/ f_fn = "compute_diff" /\ f_in \in DiffInputs
       \/ f_fn = "classify_new_grad" /\ f_in \in ClassifierJobs
       \/ f_fn = "stable_job_id" /\ f_in \in IdInputs
       \/ f_fn = "fetch_greenhouse_jobs" /\ f_in \in FetchInputs
       \/ f_fn = "canonicalize_url" /\ f_in \in UrlInputs
       \/ f_fn \in SupportedAts /\ f_in \in AdapterInputs(f_fn)

Apply(fn, value) ==
    /\ f_fn = fn
    /\ ~f_out.done
    /\ f_out' = Applied(value)
    /\ UNCHANGED <<f_fn, f_in, storeVars, persistVars, observerVars, schedVars>>

ApplyComputeDiff == Apply("compute_diff", compute_diff(f_in.old, f_in.new))

ApplyClassifyNewGrad == Apply("classify_new_grad", classify_new_grad(f_in))

ApplyStableJobId ==
    Apply("stable_job_id", <<stable_job_id(f_in.a.company, f_in.a.url),
                             stable_job_id(f_in.b.company, f_in.b.url)>>)

\* two passes of the adapter on the payloads of one board, and the diff of what they return
ApplyFetchGreenhouseJobs ==
    Apply("fetch_greenhouse_jobs",
          LET first == fetch_greenhouse_jobs(f_in.company_name, f_in.first)
              second == fetch_greenhouse_jobs(f_in.company_name, f_in.second)
          IN  [first |-> first, second |-> second,
               diff |-> compute_diff(JobSnapshot(1, first), JobSnapshot(2, second))])

ApplyCanonicalizeUrl == Apply("canonicalize_url", canonicalize_url(f_in.url))

\* the adapter collect_jobs selects for an ATS type, on one payload
ApplyAdapter ==
    \E ats_type \in SupportedAts :
        Apply(ats_type, adapter_jobs(ats_type, f_in.company_name, f_in.data))

FnNext ==
    \/ ApplyComputeDiff
    \/ ApplyClassifyNewGrad
    \/ ApplyStableJobId
    \/ ApplyFetchGreenhouseJobs
    \/ ApplyCanonicalizeUrl
    \/ ApplyAdapter

FnSpec == FnInit /\ [][FnNext]_vars

-----------------------------------------------------------------------------
(* Properties of persist_snapshot *)

IdsOf(js) == {js[i].job_id : i \in DOMAIN js}
VersionsOf(j) == {v \in DOMAIN job_versions : job_versions[v].job_id = j}
Content(v) == <<job_versions[v].title, job_versions[v].location, job_versions[v].remote,
                job_versions[v].extra>>
Returned == pc = "returned"

\* C1: after a completed pass with timestamp ts, every posting that was active before the
\* pass and is absent from the incoming list is inactive with removed_at = ts, and every
\* posting that was already inactive and is absent keeps its earlier removed_at.
C1_AbsentMarkedRemoved ==
    Returned =>
        \A j \in DOMAIN preStore.jobs \ IdsOf(in_jobs) :
            /\ preStore.jobs[j].active = 1 =>
                   jobs[j].active = 0 /\ jobs[j].removed_at = timestamp
            /\ preStore.jobs[j].active = 0 =>
                   jobs[j].active = 0 /\ jobs[j].removed_at = preStore.jobs[j].removed_at

\* a completed pass that removes one posting while another one, removed earlier, is absent too
C1_Witness ==
    /\ Returned
    /\ \E j \in DOMAIN preStore.jobs \ IdsOf(in_jobs) :
          preStore.jobs[j].active = 1 /\ jobs[j].removed_at = timestamp
    /\ \E j \in DOMAIN preStore.jobs \ IdsOf(in_jobs) :
          preStore.jobs[j].active = 0 /\ jobs[j].removed_at # NULL
          /\ jobs[j].removed_at < timestamp

\* C2: a posting that exists in the store and appears in the incoming list of a completed
\* pass with timestamp ts is afterwards active with removed_at cleared and last_seen = ts
\* (also when an earlier pass had marked it removed); its first_seen is unchanged.
C2_SeenAgainReactivated ==
    Returned =>
        \A j \in DOMAIN preStore.jobs \cap IdsOf(in_jobs) :
            /\ jobs[j].active = 1
            /\ jobs[j].removed_at = NULL
            /\ jobs[j].last_seen = timestamp
            /\ jobs[j].first_seen = preStore.jobs[j].first_seen

\* a completed pass whose list holds a posting that an earlier pass had marked removed
C2_Witness ==
    /\ Returned
    /\ \E j \in DOMAIN preStore.jobs \cap IdsOf(in_jobs) :
          /\ preStore.jobs[j].active = 0
          /\ preStore.jobs[j].removed_at # NULL
          /\ preStore.jobs[j].first_seen < timestamp

CompletedWith(j) ==
    {p \in DOMAIN passes : passes[p].outcome = "returned" /\ j \in IdsOf(passes[p].jobs)}

\* C3: after a completed pass, the number of versions of every posting equals the number
\* of completed passes whose incoming list contained it.
C3_VersionsEqualCompletedPasses ==
    Returned => \A j \in JobIds : Cardinality(VersionsOf(j)) = Cardinality(CompletedWith(j))

\* What does hold of every completed pass: it appended exactly one version for each posting
\* of its incoming list and none for any other posting.
C3_PassAppendsOnePerPosting ==
    Returned =>
        \A j \in JobIds :
            Cardinality(VersionsOf(j)) =
                Cardinality({v \in DOMAIN preStore.job_versions : preStore.job_versions[v].job_id = j})
                + (IF j \in IdsOf(in_jobs) THEN 1 ELSE 0)

\* C4: after the two passes {A,B} then {B,C} on an empty store, with B unchanged: A is
\* inactive with removed_at = the second timestamp, B is active with two versions of equal
\* content, C is active with exactly one version.
C4_Scenario ==
    Len(passes) = 2 /\ passes[1].outcome = "returned" /\ passes[2].outcome = "returned"
    /\ IdsOf(passes[1].jobs) = {"A", "B"} /\ IdsOf(passes[2].jobs) = {"B", "C"}
    /\ Range(passes[1].jobs) \cap Range(passes[2].jobs) # {}

C4_TwoPassScenario ==
    C4_Scenario =>
        /\ jobs["A"].active = 0 /\ jobs["A"].removed_at = passes[2].timestamp
        /\ jobs["B"].active = 1 /\ jobs["B"].removed_at = NULL
        /\ Cardinality(VersionsOf("B")) = 2
        /\ \A v, w \in VersionsOf("B") : Content(v) = Content(w)
        /\ jobs["C"].active = 1 /\ jobs["C"].removed_at = NULL
        /\ Cardinality(VersionsOf("C")) = 1

C4_Witness == C4_Scenario /\ passes[1].timestamp < passes[2].timestamp

\* the first one or two passes of a behaviour, the second with the list of the first
C5_SameListTwice ==
    /\ Len(passes) \in {1, 2}
    /\ Len(passes) = 2 => passes[2].jobs = passes[1].jobs

\* C5: persisting the same list twice on an empty store leaves each posting with exactly
\* two versions of equal title, location, remote and extra, and at no point during or
\* after the two passes is one of these postings marked removed.
C5_RoundTrip ==
    C5_SameListTwice =>
        /\ \A j \in IdsOf(passes[1].jobs) \cap DOMAIN jobs :
               jobs[j].active = 1 /\ jobs[j].removed_at = NULL
        /\ (Len(passes) = 2 /\ passes[1].outcome = "returned" /\ passes[2].outcome = "returned") =>
               \A j \in IdsOf(passes[1].jobs) :
                   /\ Cardinality(VersionsOf(j)) = 2
                   /\ \A v, w \in VersionsOf(j) : Content(v) = Content(w)

C5_Witness ==
    /\ Len(passes) = 2 /\ passes[2].jobs = passes[1].jobs /\ Len(passes[1].jobs) >= 2
    /\ passes[1].outcome = "returned" /\ passes[2].outcome = "returned"
    /\ \E i \in DOMAIN in_jobs : in_jobs[i].location = None

\* C7: when persist_snapshot ends with an error the store equals its state before the pass.
C7_ErrorLeavesStoreUnchanged == pc = "raised" => Store = preStore

Unknown(i) == in_jobs[i].company \notin {company_configs[c].name : c \in DOMAIN company_configs}
HasUnknown == \E i \in DOMAIN in_jobs : Unknown(i)
FirstUnknown == CHOOSE i \in DOMAIN in_jobs : Unknown(i) /\ \A h \in 1..(i - 1) : ~Unknown(h)
RepeatBefore(u) == \E g, h \in 1..(u - 1) : g < h /\ in_jobs[g].job_id = in_jobs[h].job_id
Ended == pc \in {"returned", "raised"}

\* C8 as stated: a list naming an unconfigured company makes persist_snapshot raise the
\* configuration error (ValueError).
C8_UnknownCompanyRaisesConfigError ==
    (Ended /\ HasUnknown) => (pc = "raised" /\ raised = "ValueError")

\* C8 amended: a list naming an unconfigured company never lets persist_snapshot complete
\* normally; the call ends with the configuration error, unless a posting_id is repeated
\* among the postings before the first such posting, in which case the membership insert's
\* integrity error ends the call first.
C8_UnknownCompanyIsFatal ==
    (Ended /\ HasUnknown) =>
        /\ pc = "raised"
        /\ raised = (IF RepeatBefore(FirstUnknown) THEN "IntegrityError" ELSE "ValueError")

\* a call that processed a posting and then raised on a later posting's unknown company
C8_Witness ==
    /\ pc = "raised" /\ raised = "ValueError" /\ HasUnknown
    /\ FirstUnknown > 1 /\ k = FirstUnknown

-----------------------------------------------------------------------------
(* Properties of a reader and of run_scheduler *)

\* C6: what a reader read during a pass that completed is either the store before the
\* pass (none of its writes) or the store after it (all of its writes).
C6_ReaderSeesNoneOrAll ==
    (Returned /\ view.taken) => (view.store = preStore \/ view.store = Store)

\* C9: once a scheduler pass has ended, no Run is left in status "running".
C9_NoRunLeftRunning ==
    SchedIdle => \A r \in DOMAIN runs : runs[r].status \in {"ok", "error"}

\* C10: once a scheduler pass has ended, exactly one snapshot row is linked to its Run.
C10_OneSnapshotPerRun ==
    SchedIdle =>
        \A r \in DOMAIN runs :
            Cardinality({n \in DOMAIN snapshots : snapshots[n].run_id = r}) = 1

-----------------------------------------------------------------------------
(* Properties of collect_jobs and of a scheduler pass *)

RunErrorsOf(r) == {e \in DOMAIN run_errors : run_errors[e].run_id = r}
SnapshotsOf(r) == {n \in DOMAIN snapshots : snapshots[n].run_id = r}
MembersOf(n) == {m.job_id : m \in {x \in snapshot_jobs : x.snapshot_id = n}}
PassEnded == s_pc = "crashed"

\* what the adapter of the i-th source did in the current collect_jobs call
Fetched(i) == fetch_jobs(s_companies[i], s_io[i].event, s_io[i].jobs)

\* C11: a scheduler pass that has ended closed its Run with status "ok" exactly when the
\* pass recorded no source error and "error" otherwise, persisted one snapshot for the Run
\* and wrote one RunError row per failed source.
C11_RunClosedOkIffNoErrors ==
    PassEnded =>
        /\ runs[s_run_id].status = (IF Len(s_errors) = 0 THEN "ok" ELSE "error")
        /\ Cardinality(SnapshotsOf(s_run_id)) = 1
        /\ Cardinality(RunErrorsOf(s_run_id)) = Len(s_errors)

RECURSIVE CollectedJobs(_)
\* the postings of the non-raising sources among the first i, in configuration order
CollectedJobs(i) ==
    IF i = 0 THEN <<>>
    ELSE CollectedJobs(i - 1) \o (IF Fetched(i).raised THEN <<>> ELSE Fetched(i).jobs)

RECURSIVE CollectedErrors(_)
\* one record per raising source among the first i, in configuration order
CollectedErrors(i) ==
    IF i = 0 THEN <<>>
    ELSE CollectedErrors(i - 1)
         \o (IF Fetched(i).raised
             THEN <<[company_slug |-> s_companies[i].slug, company_name |-> s_companies[i].name,
                     ats |-> s_companies[i].ats, error |-> Fetched(i).error]>>
             ELSE <<>>)

CollectReturned == s_pc \in {"collect", "insert_run_error", "persist", "crashed"}
                   /\ s_c > Len(s_companies)

C13_OneSourceFailsOneSucceeds ==
    (PassEnded /\ Len(s_companies) = 2 /\ Fetched(1).raised /\ ~Fetched(2).raised) =>
        /\ \E n \in SnapshotsOf(s_run_id) :
              SnapshotsOf(s_run_id) = {n} /\ MembersOf(n) = IdsOf(Fetched(2).jobs)
        /\ \E e \in RunErrorsOf(s_run_id) :
              RunErrorsOf(s_run_id) = {e}
              /\ run_errors[e].company_slug = s_companies[1].slug

\* C14: a network error, timeout, non-2xx response or malformed JSON body of a source's
\* remote fetch gives that source exactly one error record in the pass, and once the pass
\* has written its errors exactly one RunError row.
C14_FetchFailureIsSourceFailure ==
    \A i \in DOMAIN s_io :
        (s_pc \in {"collect", "insert_run_error", "persist", "crashed"}
         /\ s_io[i].event \in RemoteFailures) =>
            /\ Cardinality({e \in DOMAIN s_errors :
                               s_errors[e].company_slug = s_companies[i].slug}) = 1
            /\ s_pc \in {"persist", "crashed"} =>
                   Cardinality({e \in RunErrorsOf(s_run_id) :
                                   run_errors[e].company_slug = s_companies[i].slug}) = 1

-----------------------------------------------------------------------------
(* Properties of the pure functions *)

Did(fn) == f_fn = fn /\ f_out.done
LastOf(js, id) ==
    js[CHOOSE i \in DOMAIN js : js[i].job_id = id /\ \A h \in (i + 1)..Len(js) : js[h].job_id # id]
NoRepeat(seq) == \A i, j \in DOMAIN seq : i # j => seq[i].job_id # seq[j].job_id
Differing(before, after) ==
    {field \in {"title", "location", "remote"} : before[field] # after[field]}
    \cup (IF Range(before.extra) # Range(after.extra) THEN {"extra"} ELSE {})

\* C15: compute_diff of two snapshots indexed by posting_id returns three pairwise disjoint
\* lists: new holds exactly the postings whose id is only in the later snapshot, removed
\* exactly those whose id is only in the earlier one, changed exactly the ids of both in
\* which title, location, remote or extra differs, each entry with the (before, after)
\* pair of exactly the differing fields.
C15_DiffPartitionsIds ==
    Did("compute_diff") =>
        LET old == f_in.old.jobs
            new == f_in.new.jobs
            O == IdsOf(old)
            N == IdsOf(new)
            d == f_out.value
        IN  /\ NoRepeat(d.new) /\ NoRepeat(d.removed) /\ NoRepeat(d.changed)
            /\ IdsOf(d.new) = N \ O
            /\ IdsOf(d.removed) = O \ N
            /\ IdsOf(d.changed) =
                   {id \in O \cap N : Differing(LastOf(old, id), LastOf(new, id)) # {}}
            /\ IdsOf(d.new) \cap IdsOf(d.removed) = {}
            /\ IdsOf(d.new) \cap IdsOf(d.changed) = {}
            /\ IdsOf(d.removed) \cap IdsOf(d.changed) = {}
            /\ \A i \in DOMAIN d.new : d.new[i] = LastOf(new, d.new[i].job_id)
            /\ \A i \in DOMAIN d.removed : d.removed[i] = LastOf(old, d.removed[i].job_id)
            /\ \A i \in DOMAIN d.changed :
                  LET c == d.changed[i]
                      before == LastOf(old, c.job_id)
                      after == LastOf(new, c.job_id)
                  IN  /\ c.old = before /\ c.new = after
                      /\ DOMAIN c.changes = Differing(before, after)
                      /\ \A field \in DOMAIN c.changes :
                            c.changes[field] = <<before[field], after[field]>>

\* the diff of {A, B} and {B', C} where B' differs from B only in its title
C15_Witness ==
    /\ Did("compute_diff")
    /\ f_in.old.jobs = <<JobA, JobB>> /\ f_in.new.jobs = <<JobBTitle, JobC2>>
    /\ IdsOf(f_out.value.new) = {"C"} /\ IdsOf(f_out.value.removed) = {"A"}
    /\ Len(f_out.value.changed) = 1
    /\ f_out.value.changed[1].job_id = "B"
    /\ DOMAIN f_out.value.changed[1].changes = {"title"}
    /\ f_out.value.changed[1].changes["title"] =
           <<"Senior Software Engineer", "Senior Software Engineer II">>

\* the seniority vocabulary of rule 1
SeniorityKeywords ==
    {"senior", "sr", "staff", "principal", "lead", "manager", "director", "vice president",
     "vp", "head of", "architect", "contract", "contractor", "temporary", "temp", "consultant"}

SeniorityReason(kw) == <<"title contains \"" \o kw \o "\" (seniority)">>

\* the signals of a posting, read off its fields
TitleOf(job) == lower(job.title)
TextOf(job) ==
    LET blobs == _collect_text_blobs(job)
    IN  JoinLines(<<TitleOf(job)>> \o [i \in DOMAIN blobs |-> lower(blobs[i])])
HasSeniorityTitle(job) == \E kw \in SeniorityKeywords : Contains(TitleOf(job), kw)
\* years of experience >= 3 (one digit 3..9 or two digits), PhD, postdoc, masters required
RequiresExperience(job) ==
    \E i \in {1, 2, 5, 6, 7, 8} : re_search(_NEGATIVE_TEXT_PATTERNS[i].elems, TextOf(job))
HasEarlyCareerTitle(job) ==
    \E i \in DOMAIN _POSITIVE_TITLE_KEYWORDS : Contains(TitleOf(job), _POSITIVE_TITLE_KEYWORDS[i])
HasEarlyCareerText(job) ==
    \E i \in DOMAIN _POSITIVE_TEXT_PATTERNS :
        re_search(_POSITIVE_TEXT_PATTERNS[i].elems, TextOf(job))
HasEarlyCareerLevel(job) ==
    \E i \in DOMAIN MetadataKeys, t \in MetaEarly :
        Contains(MetaLabel(job.extra, MetadataKeys[i]), t)
HasPositiveSignal(job) ==
    HasEarlyCareerTitle(job) \/ HasEarlyCareerText(job) \/ HasEarlyCareerLevel(job)
IsResearchTitle(job) ==
    \E i \in DOMAIN _RESEARCH_TITLE_KEYWORDS : Contains(TitleOf(job), _RESEARCH_TITLE_KEYWORDS[i])
ResearchReason == <<"research role with no explicit new-grad signals">>
NoSignalReason == <<"no positive new-grad signals found">>

\* C16: a posting whose title contains a seniority keyword is rejected with the one reason
\* that names a seniority keyword found in the title, whatever early-career keyword,
\* positive text pattern or early-career level field it also has.
C16_SeniorityTitleRejected ==
    (Did("classify_new_grad") /\ HasSeniorityTitle(f_in)) =>
        /\ ~f_out.value.ok
        /\ \E kw \in SeniorityKeywords :
              Contains(TitleOf(f_in), kw) /\ f_out.value.reasons = SeniorityReason(kw)

\* a senior title that also names an early-career level in its title, text and level field
C16_Witness ==
    /\ Did("classify_new_grad")
    /\ f_in.title = "Senior New Grad Engineer"
    /\ HasEarlyCareerTitle(f_in) /\ HasEarlyCareerText(f_in) /\ HasEarlyCareerLevel(f_in)
    /\ ~f_out.value.ok
    /\ f_out.value.reasons = SeniorityReason("senior")

\* C17: a posting is accepted exactly when its title has no seniority keyword, its title
\* and free text match no years >= 3 / PhD / postdoc / masters-required pattern and it has
\* a positive signal; an accepted verdict carries a non-empty list of reasons; a posting
\* passing rules 1, 2 and 4 without a positive signal gets the "no positive signal" reason.
C17_AcceptedIffSignalAndNoHardNegative ==
    Did("classify_new_grad") =>
        /\ f_out.value.ok <=>
               (~HasSeniorityTitle(f_in) /\ ~RequiresExperience(f_in) /\ HasPositiveSignal(f_in))
        /\ f_out.value.ok => f_out.value.reasons # <<>>
        /\ (~HasSeniorityTitle(f_in) /\ ~RequiresExperience(f_in) /\ ~IsResearchTitle(f_in)
            /\ ~HasPositiveSignal(f_in)) =>
               (~f_out.value.ok /\ f_out.value.reasons = NoSignalReason)

\* C18: a research title that passes rules 1 and 2 and has no positive signal is rejected
\* with the research reason; with a positive signal it is never given the research reason.
C18_ResearchNeedsExplicitSignal ==
    (Did("classify_new_grad") /\ IsResearchTitle(f_in)
     /\ ~HasSeniorityTitle(f_in) /\ ~RequiresExperience(f_in)) =>
        IF HasPositiveSignal(f_in)
        THEN f_out.value.reasons # ResearchReason
        ELSE ~f_out.value.ok /\ f_out.value.reasons = ResearchReason

HexDigits == Digit \cup {"a", "b", "c", "d", "e", "f"}
IsId(id) == Len(id) = 24 /\ \A i \in 1..24 : CharAt(id, i) \in HexDigits
HashedKey(pair) == pair.company \o "|" \o pair.url

\* C19 as stated: equal (company, url) pairs get the same 24-digit hex identifier, and
\* distinct pairs have distinct hashed keys and distinct identifiers.
C19_DistinctPairsDistinctIds ==
    Did("stable_job_id") =>
        /\ IsId(f_out.value[1]) /\ IsId(f_out.value[2])
        /\ f_in.a = f_in.b => f_out.value[1] = f_out.value[2]
        /\ f_in.a # f_in.b =>
               HashedKey(f_in.a) # HashedKey(f_in.b) /\ f_out.value[1] # f_out.value[2]

\* C19 amended: equal pairs get the same 24-digit hex identifier; distinct pairs whose
\* company names hold no "|" have distinct hashed keys and distinct identifiers.
C19_DistinctIdsWithoutDelimiter ==
    Did("stable_job_id") =>
        /\ IsId(f_out.value[1]) /\ IsId(f_out.value[2])
        /\ f_in.a = f_in.b => f_out.value[1] = f_out.value[2]
        /\ (f_in.a # f_in.b /\ ~Contains(f_in.a.company, "|") /\ ~Contains(f_in.b.company, "|")) =>
               HashedKey(f_in.a) # HashedKey(f_in.b) /\ f_out.value[1] # f_out.value[2]

\* two companies with the same URL, and one company with two URLs, get different identifiers
C19_Witness ==
    /\ Did("stable_job_id")
    /\ ~Contains(f_in.a.company, "|") /\ ~Contains(f_in.b.company, "|")
    /\ f_in.a.company # f_in.b.company /\ f_in.a.url = f_in.b.url
    /\ Contains(f_in.a.url, "|")
    /\ IsId(f_out.value[1]) /\ f_out.value[1] # f_out.value[2]

\* C20: every posting an adapter returns has the identifier of its company and canonical
\* URL, so two postings of a board whose URLs canonicalize identically have the same
\* posting_id, and two passes that return the same jobs through such URLs diff to nothing
\* new and nothing removed.
C20_IdFromCanonicalUrl ==
    Did("fetch_greenhouse_jobs") =>
        LET first == f_out.value.first
            second == f_out.value.second
            Canon(js) == {canonicalize_url(js[i].url) : i \in DOMAIN js}
        IN  /\ \A i \in DOMAIN first :
                  first[i].job_id = stable_job_id(f_in.company_name,
                                                  canonicalize_url(first[i].url))
            /\ \A i \in DOMAIN first, j \in DOMAIN second :
                  canonicalize_url(first[i].url) = canonicalize_url(second[j].url) =>
                      first[i].job_id = second[j].job_id
            /\ Canon(first) = Canon(second) =>
                  f_out.value.diff.new = <<>> /\ f_out.value.diff.removed = <<>>

\* the fixed tracking set: the utm_* keys and the referral/source markers
IsTrackingKey(key) ==
    \/ lower(key) \in {"utm_source", "utm_medium", "utm_campaign", "utm_term", "utm_content"}
    \/ lower(key) \in {"ref", "referrer", "gh_src", "gh_jid", "source", "src"}

RECURSIVE KeptQuery(_)
\* the parameters outside the tracking set, in their order, each value in its encoded form
KeptQuery(params) ==
    IF Len(params) = 0 THEN <<>>
    ELSE (IF IsTrackingKey(params[1][1]) THEN <<>>
          ELSE <<params[1][1] \o "=" \o quote_plus(unquote_plus(params[1][2]))>>)
         \o KeptQuery(Tail(params))

RECURSIVE JoinAmp(_)
JoinAmp(fields) ==
    IF Len(fields) = 0 THEN ""
    ELSE fields[1] \o (IF Len(fields) > 1 THEN "&" ELSE "") \o JoinAmp(Tail(fields))

CanonicalForm(in) ==
    lower(in.scheme) \o "://" \o lower(in.host) \o rstrip(in.path, {"/"})
    \o (IF Len(KeptQuery(in.params)) = 0 THEN "" ELSE "?" \o JoinAmp(KeptQuery(in.params)))

ExampleUrl == "https://X.com/job?utm_source=x&gh_jid=1&foo=bar"

-----------------------------------------------------------------------------
(* Properties of the scheduler loop and of the rows of the store *)

\* C22: run_scheduler ends only when it was given a positive iterations = N, and then it has
\* made exactly N passes (with iterations = 0 it does not end on its own).
C22_IterationsBoundPasses ==
    PassEnded => (iterations > 0 /\ s_i = iterations)

\* C23: the store never holds two SnapshotMembership rows for the same snapshot and posting.
C23_OneMembershipPerPair ==
    \A r1, r2 \in snapshot_jobs :
        (r1.snapshot_id = r2.snapshot_id /\ r1.job_id = r2.job_id) => r1 = r2

\* a pass offered the same posting twice: the store holds the row of the first occurrence
\* and the version appended for the second occurrence is in no row of that snapshot
C23_Witness ==
    /\ raised = "IntegrityError"
    /\ \E r \in snapshot_jobs :
          /\ r.snapshot_id = snapshot_id /\ r.job_id = in_jobs[k].job_id
          /\ r.version_id < version_id
    /\ Len(snapshots) >= 2

\* every row of the table before the step is in it, unchanged, after the step
RowsKept(before, after) ==
    \A i \in DOMAIN before : i \in DOMAIN after /\ after[i] = before[i]

-----------------------------------------------------------------------------
(* Properties of the adapters *)

\* the URL fields of a provider record, in the order of the adapter's preference
UrlFieldsOf(ats_type, rec) ==
    CASE ats_type = "greenhouse" -> <<rec.absolute_url>>
      [] ats_type = "lever" -> <<rec.hostedUrl, rec.applyUrl>>
      [] ats_type = "ashby" -> <<rec.jobUrl, rec.applyUrl>>
      [] ats_type = "smartrecruiters" -> <<rec.postingUrl, rec.applyUrl, rec.ref>>

HoldsText(x) == x # None /\ x # ""
HoldsUrl(x) == x # None /\ strip(x) # ""

\* what a record may contribute: nothing when no field holds a URL; the first URL when
\* no blank text precedes it; when blank text precedes it, the URL or nothing
Contribution(fields) ==
    LET given == FirstIndex({i \in DOMAIN fields : HoldsText(fields[i])})
        usable == FirstIndex({i \in DOMAIN fields : HoldsUrl(fields[i])})
    IN  IF usable = 0 THEN {<<>>}
        ELSE IF given = usable THEN {<<strip(fields[usable])>>}
        ELSE {<<>>, <<strip(fields[usable])>>}

RECURSIVE PossibleUrls(_, _)
PossibleUrls(ats_type, records) ==
    IF Len(records) = 0 THEN {<<>>}
    ELSE {a \o b : a \in Contribution(UrlFieldsOf(ats_type, Head(records))),
                   b \in PossibleUrls(ats_type, Tail(records))}

UrlsOf(js) == [i \in DOMAIN js |-> js[i].url]

-----------------------------------------------------------------------------
(* Properties of the store after and during a pass *)

ActiveIds == {j \in DOMAIN jobs : jobs[j].active = 1}

\* C26: when persist_snapshot has completed, the active postings of the store are exactly
\* the postings of the list it was given.
C26_ActiveSetIsIncomingList ==
    Returned => ActiveIds = IdsOf(in_jobs)

\* a completed pass deactivated a posting that was active before it and reactivated one
\* that was inactive
C26_Witness ==
    /\ Returned
    /\ \E a, b \in DOMAIN preStore.jobs :
          /\ preStore.jobs[a].active = 1 /\ a \notin IdsOf(in_jobs) /\ jobs[a].active = 0
          /\ preStore.jobs[b].active = 0 /\ b \in IdsOf(in_jobs) /\ jobs[b].active = 1

\* C27: in every state of the store a posting is active exactly when its removed_at is
\* null, and no step changes the first_seen of a posting: the step that creates the posting
\* sets it to the timestamp of the pass.
C27_ActiveIffNotRemoved ==
    /\ [](\A j \in DOMAIN jobs : (jobs[j].active = 1) <=> (jobs[j].removed_at = NULL))
    /\ [][\A j \in DOMAIN jobs' :
             jobs'[j].first_seen = (IF j \in DOMAIN jobs THEN jobs[j].first_seen ELSE timestamp)]_vars

\* a posting created by one pass, marked removed by a second and seen again by a third,
\* next to a posting that is still marked removed
C27_Witness ==
    /\ \E j \in DOMAIN jobs :
          /\ j \in DOMAIN preStore.jobs /\ preStore.jobs[j].removed_at # NULL
          /\ jobs[j].active = 1 /\ jobs[j].removed_at = NULL
          /\ jobs[j].first_seen < preStore.jobs[j].removed_at
          /\ jobs[j].last_seen = timestamp
    /\ \E h \in DOMAIN jobs : jobs[h].active = 0 /\ jobs[h].removed_at # NULL

\* json.loads of the text json.dumps writes for a flat str -> str dict: the keys and values
\* are the texts between the 1st and 2nd, 3rd and 4th, ... double quotes
json_loads(text) ==
    LET quotes == {i \in 1..Len(text) : CharAt(text, i) = "\""}
        q(n) == CHOOSE i \in quotes : Cardinality({h \in quotes : h <= i}) = n
    IN  [n \in 1..(Cardinality(quotes) \div 4) |->
            <<SubSeq(text, q(4 * n - 3) + 1, q(4 * n - 2) - 1),
              SubSeq(text, q(4 * n - 1) + 1, q(4 * n) - 1)>>]

\* the classifier's verdict on the title and extra column of a version row
VersionVerdict ==
    [title \in {j.title : j \in Jobs}, extra \in {extra_json(j) : j \in Jobs} |->
        classify_new_grad(Job("", "", title, "", "", "", None, json_loads(extra))).ok]

\* C28: every SnapshotMembership row references a version of its own posting whose
\* timestamp is the timestamp of the row's snapshot, and its verdict is the classifier's
\* verdict on that version's title and extra.
C28_MembershipReferencesPassVersion ==
    \A r \in snapshot_jobs :
        /\ r.version_id \in DOMAIN job_versions
        /\ r.snapshot_id \in DOMAIN snapshots
        /\ LET v == job_versions[r.version_id]
           IN  /\ v.job_id = r.job_id
               /\ v.timestamp = snapshots[r.snapshot_id].timestamp
               /\ r.is_new_grad = (IF VersionVerdict[v.title, v.extra] THEN 1 ELSE 0)

\* one posting is in two snapshots through two versions with different content and
\* different verdicts
C28_Witness ==
    \E r1, r2 \in snapshot_jobs :
        /\ r1.job_id = r2.job_id /\ r1.snapshot_id < r2.snapshot_id
        /\ r1.version_id < r2.version_id
        /\ job_versions[r1.version_id].title # job_versions[r2.version_id].title
        /\ r1.is_new_grad # r2.is_new_grad

\* the source of the i-th company of the current scheduler pass contributed no postings
\* because its fetch failed: the adapter raised, or returned [] after a failed GET
FetchFailed(i) == Fetched(i).raised \/ s_io[i].event \in RemoteFailures

PostingsOf(cfg) ==
    {j \in DOMAIN jobs : companies[jobs[j].company_id].slug = cfg.slug}

\* C29: when a scheduler pass has ended, every posting of a source whose fetch failed in
\* that pass is inactive with removed_at set: the pass has marked the ones that were active.
C29_FailedSourcePostingsRemoved ==
    PassEnded =>
        \A i \in DOMAIN s_io :
            FetchFailed(i) =>
                \A j \in PostingsOf(s_companies[i]) :
                    jobs[j].active = 0 /\ jobs[j].removed_at # NULL

Repeated(h) == \E g \in 1..(h - 1) : in_jobs[g].job_id = in_jobs[h].job_id
HasRepeat == \E h \in DOMAIN in_jobs : Repeated(h)
FirstRepeat == CHOOSE h \in DOMAIN in_jobs : Repeated(h) /\ \A g \in 1..(h - 1) : ~Repeated(g)
RemovalNotExecuted ==
    /\ pc = "raised"
    /\ \A j \in DOMAIN jobs : jobs[j].removed_at # timestamp
    /\ \A j \in DOMAIN preStore.jobs : preStore.jobs[j].active = 1 => jobs[j].active = 1

\* C30 as stated: a call whose list holds a posting_id twice ends with the integrity error
\* of the membership insert at the second occurrence, and its removal step is not executed.
C30_DuplicateRaisesAtSecondOccurrence ==
    (Ended /\ HasRepeat) =>
        /\ raised = "IntegrityError" /\ k = FirstRepeat
        /\ RemovalNotExecuted

\* C30 amended: a call whose list holds a posting_id twice never executes its removal step;
\* it ends with the integrity error at the second occurrence unless a posting of an
\* unconfigured company stands at or before that position, and then it ends there with the
\* configuration error.
C30_DuplicateIsFatal ==
    (Ended /\ HasRepeat) =>
        /\ RemovalNotExecuted
        /\ IF \E u \in 1..FirstRepeat : Unknown(u)
           THEN raised = "ValueError" /\ k = FirstUnknown
           ELSE raised = "IntegrityError" /\ k = FirstRepeat

\* the second occurrence of a posting ended a pass while a posting absent from its list,
\* active before the pass, is still active
C30_Witness ==
    /\ raised = "IntegrityError" /\ pc = "raised"
    /\ HasRepeat /\ k = FirstRepeat
    /\ \E j \in DOMAIN preStore.jobs \ IdsOf(in_jobs) :
          preStore.jobs[j].active = 1 /\ jobs[j].active = 1 /\ jobs[j].removed_at = NULL

=============================================================================
